---- MODULE Spec2Model ----
(***************************************************************************)
(* Model of the document-locking bot (src/bot_edited.py): the remote Git   *)
(* LFS lock service, the lock / unlock / force-unlock / select handlers,   *)
(* the sync ladder git_pull_rebase_autostash and the upload pipeline       *)
(* handle_document_upload.                                                 *)
(*                                                                         *)
(* Strings that the code compares are sequences of characters, so that     *)
(* str.lower() is a real conversion.  Paths are sequences of components    *)
(* (already slash-normalised, as every caller passes them).                *)
(***************************************************************************)
EXTENDS Integers, Sequences, FiniteSets, TLC

VARIABLES locks, lockCols, wc, remoteHist, res, sync, cfg, loop

vars == <<locks, lockCols, wc, remoteHist, res, sync, cfg, loop>>

\* the remote holds at most MaxLocks locks at a time
MaxLocks == 2

\* the sync ladder is run on its own at most MaxSyncRuns times
MaxSyncRuns == 2

\* at most MaxUploads document messages are handled
MaxUploads == 1

\* at most MaxHist commits are pushed by editors outside the bot
MaxHist == 1

\* an unset name / empty text, an absent lock id, an absent lock record
NoName == <<>>
NoId == 0
NoLock == [found |-> FALSE, path |-> <<>>, owner |-> <<>>, id |-> 0]

\* no binding stored, no working copy cloned, nothing configured, no operation run
NoSession == [kind |-> "none", repo_url |-> <<>>, repo_type |-> "none",
              git_username |-> <<>>]
CfgIdle == [store |-> <<>>, dirs |-> <<>>, n |-> 0, out |-> [op |-> "none"],
            session |-> [u \in {1, 2, 3} |-> NoSession]]

\* the event loop of the bot process: no update waiting, no handler running,
\* no child process hung, no request completed; no lock race under way
NoRequest == [user |-> 0, kind |-> "none", left |-> 0]
LoopIdle == [queue |-> <<>>, running |-> NoRequest, hung |-> FALSE,
             done |-> <<>>, race |-> <<>>]

-----------------------------------------------------------------------------
(* Strings                                                                 *)

LowerChar(c) ==
    CASE c = "A" -> "a" [] c = "B" -> "b" [] c = "C" -> "c" [] c = "D" -> "d"
      [] c = "E" -> "e" [] c = "F" -> "f" [] c = "G" -> "g" [] c = "H" -> "h"
      [] c = "I" -> "i" [] c = "J" -> "j" [] c = "K" -> "k" [] c = "L" -> "l"
      [] c = "M" -> "m" [] c = "N" -> "n" [] c = "O" -> "o" [] c = "P" -> "p"
      [] c = "Q" -> "q" [] c = "R" -> "r" [] c = "S" -> "s" [] c = "T" -> "t"
      [] c = "U" -> "u" [] c = "V" -> "v" [] c = "W" -> "w" [] c = "X" -> "x"
      [] c = "Y" -> "y" [] c = "Z" -> "z"
      [] OTHER -> c

\* str.lower()
Lower(s) == [i \in 1..Len(s) |-> LowerChar(s[i])]

Digit(n) == CASE n = 0 -> "0" [] n = 1 -> "1" [] n = 2 -> "2" [] n = 3 -> "3"
              [] n = 4 -> "4" [] n = 5 -> "5" [] n = 6 -> "6" [] n = 7 -> "7"
              [] n = 8 -> "8" [] n = 9 -> "9"

RECURSIVE Str(_)
\* str(int) for a non-negative chat id
Str(n) == IF n < 10 THEN <<Digit(n)>> ELSE Str(n \div 10) \o <<Digit(n % 10)>>

-----------------------------------------------------------------------------
(* Principals                                                              *)

Users == {1, 2, 3}

\* git_username stored in the principal's binding (NoName when never collected)
GitUsername(u) ==
    CASE u = 1 -> <<"A", "l">>
      [] u = 2 -> NoName
      [] u = 3 -> <<"e", "v">>

\* the identity under which the remote service records the principal's locks
Account(u) ==
    CASE u = 1 -> <<"a", "l">>
      [] u = 2 -> Str(2)
      [] u = 3 -> <<"e", "v">>

ADMIN_IDS == {Str(3)}

\* owner tokens the remote may report: the accounts above and an account whose
\* name is the decimal text of a chat id
Tokens == {Account(u) : u \in Users} \cup {Str(1)}

\* is_lock_owner as written at the upload gate, in unlock and in the menus
is_lock_owner(lfs_owner, u) ==
    \/ lfs_owner = Str(u)
    \/ lfs_owner = GitUsername(u)
    \/ (GitUsername(u) # NoName /\ Lower(lfs_owner) = Lower(GitUsername(u)))

is_admin_everyone(u) == TRUE

is_admin(u) == Str(u) \in ADMIN_IDS

\* is_allowed_to_unlock / can_unlock
can_unlock(lfs_owner, u) == is_lock_owner(lfs_owner, u) \/ is_admin(u)

\* the ownership test around the push (temporary unlock and re-lock)
is_temp_unlock_owner(lfs_owner, u) == lfs_owner = Str(u)

-----------------------------------------------------------------------------
(* Paths                                                                   *)

P_docs == <<"docs", "x.docx">>
P_root == <<"x.docx">>
P_y    == <<"docs", "y.docx">>

Paths == {P_docs, P_root, P_y}

NotFound == <<>>

\* Path(rel).name / doc_path.name
Basename(p) == p[Len(p)]

\* a.endswith('/' + b) on slash-joined component sequences
EndsWithSlash(a, b) ==
    /\ Len(a) > Len(b)
    /\ SubSeq(a, Len(a) - Len(b) + 1, Len(a)) = b

-----------------------------------------------------------------------------
(* Remote lock service and "git lfs locks"                                 *)

\* the lock the remote, holding the locks L, has on exactly path p
LockAtIn(L, p) ==
    IF \E i \in 1..Len(L) : L[i].path = p
    THEN [found |-> TRUE, path |-> p,
          owner |-> L[CHOOSE i \in 1..Len(L) : L[i].path = p].owner,
          id |-> L[CHOOSE i \in 1..Len(L) : L[i].path = p].id]
    ELSE NoLock

LockAt(p) == LockAtIn(locks, p)

\* the id the remote gives a lock: unique among the locks it holds (it holds at
\* most one per path)
LockId(p) == CASE p = P_docs -> 1 [] p = P_root -> 2 [] p = P_y -> 3

\* one line of the listing, split on whitespace
LockLine(l) == IF lockCols = 3 THEN <<l.path, l.owner, <<"ID:", l.id>>>>
               ELSE <<l.path, l.owner>>

\* proc.stdout.splitlines() of "git lfs locks"; empty when the call failed
ListingIn(L, ok) == IF ok THEN [i \in 1..Len(L) |-> LockLine(L[i])] ELSE <<>>

Listing(ok) == ListingIn(locks, ok)

MatchesPath(locked_path, normalized_path) ==
    \/ locked_path = normalized_path
    \/ EndsWithSlash(locked_path, normalized_path)
    \/ EndsWithSlash(normalized_path, locked_path)
    \/ Basename(locked_path) = Basename(normalized_path)

ParseLine(parts) ==
    [found |-> TRUE,
     path  |-> parts[1],
     owner |-> parts[2],
     id    |-> IF Len(parts) > 2 /\ parts[3][1] = "ID:" THEN parts[3][2] ELSE NoId]

\* a lookup that keeps the previous answer instead of reading the listing
get_lfs_lock_info_cached(doc_rel_path, out) ==
    IF res.info.found /\ MatchesPath(res.info.path, doc_rel_path)
    THEN res.info
    ELSE LET hits == {i \in 1..Len(out) :
                        Len(out[i]) >= 2 /\ MatchesPath(out[i][1], doc_rel_path)}
         IN IF hits = {} THEN NoLock
            ELSE ParseLine(out[CHOOSE i \in hits : \A j \in hits : i <= j])

\* get_lfs_lock_info: first matching line of the listing, or NoLock (None)
get_lfs_lock_info(doc_rel_path, out) ==
    LET hits == {i \in 1..Len(out) :
                    Len(out[i]) >= 2 /\ MatchesPath(out[i][1], doc_rel_path)}
    IN IF hits = {} THEN NoLock
       ELSE ParseLine(out[CHOOSE i \in hits : \A j \in hits : i <= j])

Range(s) == {s[i] : i \in 1..Len(s)}

RemoveAt(s, i) == SubSeq(s, 1, i - 1) \o SubSeq(s, i + 1, Len(s))


\* error texts of the remote primitives, and the substrings the code looks for
ErrAlready     == "Lock failed: already locked"
ErrSsh         == "ssh: connect to host: exit status 255"
ErrOther       == "batch response: forbidden"
ErrUncommitted == "Cannot unlock file with uncommitted changes"
ErrNotOwner    == "lock is owned by another user"
ErrNoLock      == "no matching locks found"

HasAlreadyLocked_never(err) == FALSE
HasAlreadyLocked(err) == err = ErrAlready
HasSsh(err)           == err = ErrSsh
HasUncommitted_never(err) == FALSE
HasUncommitted(err)   == err = ErrUncommitted

TransportErrs == {ErrSsh, ErrOther}

\* "git lfs lock <path>" run by account acct on a remote holding the locks L:
\* the outcomes the remote can give
RemoteCreateIn(L, p, acct) ==
    {[ok |-> FALSE, err |-> e, locks |-> L] : e \in TransportErrs}
    \cup
    (IF LockAtIn(L, p).found
     THEN {[ok |-> FALSE, err |-> ErrAlready, locks |-> L]}
     ELSE {[ok |-> TRUE, err |-> "",
            locks |-> Append(L, [path |-> p, owner |-> acct, id |-> LockId(p)])]})

RemoteCreate(p, acct) == RemoteCreateIn(locks, p, acct)

IndexOfId(L, id) == CHOOSE i \in 1..Len(L) : L[i].id = id

\* "git lfs unlock --id <id>" / "git lfs unlock <path>" / "... --force <path>"
\* of lock l, run by account acct whose working copy has (dirty) or has not
\* uncommitted changes in the locked file
RemoteUnlockIn(L, l, acct, force, dirty) ==
    {[ok |-> FALSE, err |-> e, locks |-> L] : e \in TransportErrs}
    \cup
    (IF ~l.found
     THEN {[ok |-> FALSE, err |-> ErrNoLock, locks |-> L]}
     ELSE IF ~force /\ dirty
     THEN {[ok |-> FALSE, err |-> ErrUncommitted, locks |-> L]}
     ELSE IF ~force /\ l.owner # acct
     THEN {[ok |-> FALSE, err |-> ErrNotOwner, locks |-> L]}
     ELSE {[ok |-> TRUE, err |-> "", locks |-> RemoveAt(L, IndexOfId(L, l.id))]})

RemoteUnlock(l, acct, force, dirty) == RemoteUnlockIn(locks, l, acct, force, dirty)

LockWithId(id) ==
    IF \E i \in 1..Len(locks) : locks[i].id = id
    THEN LockAt(locks[IndexOfId(locks, id)].path)
    ELSE NoLock

-----------------------------------------------------------------------------
(* Working copies and the remote history                                   *)

\* contents of a document
Contents == {1, 2}

\* a file of zero bytes, and a path with no file
EmptyBytes == 0
NoFile == 0 - 1

\* hashlib.sha256(data).hexdigest(): one digest per content
Hash(c) == 2 * c + 101

\* old_hash = None
NoHash == 0

NoRepo == [exists |-> FALSE, doc |-> NotFound, disk |-> 0, base |-> 0,
           ahead |-> <<>>, other |-> {}, stash |-> <<>>]

\* a fresh clone: the document as in the first remote commit, nothing local
\* doc is the document whose content the model follows
CleanWc == [exists |-> TRUE, doc |-> P_docs, disk |-> 1, base |-> 1,
            ahead |-> <<>>, other |-> {}, stash |-> <<>>]

\* content of Tracked in HEAD of working copy w, hist being the remote history
HeadContent(w, hist) ==
    IF w.ahead # <<>> THEN w.ahead[Len(w.ahead)].content ELSE hist[w.base].content

\* git sees an uncommitted modification of path p in u's working copy
DirtyAt(u, p) ==
    /\ wc[u].exists
    /\ p = wc[u].doc
    /\ wc[u].disk # HeadContent(wc[u], remoteHist)

-----------------------------------------------------------------------------
(* git on a working copy w, hist being the remote history                  *)

\* local changes besides the tracked document: a modified tracked file, an
\* untracked file, the content of an older stash entry of the user
Items == {"other", "untracked", "old"}

NoEntry == [hint |-> 0, items |-> {}]

\* "git status --porcelain" shows a modified tracked file
TrackedDirty(w, hist) ==
    \/ w.disk # HeadContent(w, hist)
    \/ w.other \cap {"other", "old"} # {}

\* "git status --porcelain" shows anything at all
AnyLocal(w, hist) == TrackedDirty(w, hist) \/ "untracked" \in w.other

\* a successful "git pull --rebase [--autostash]": the remote commits are under
\* the local ones, an unmodified document follows the new HEAD
git_pull(w, hist) ==
    [w EXCEPT !.base = Len(hist),
              !.disk = IF w.disk = HeadContent(w, hist) /\ w.ahead = <<>>
                       THEN hist[Len(hist)].content ELSE w.disk]

\* "git add <path>" and "git commit -m": commits the document when it differs
\* from HEAD, else fails with nothing to commit
git_commit_path(w, hist, by) ==
    IF w.disk # HeadContent(w, hist)
    THEN [ok |-> TRUE,
          w |-> [w EXCEPT !.ahead = Append(@, [content |-> w.disk, by |-> by])]]
    ELSE [ok |-> FALSE, w |-> w]

\* "git stash push -u" that throws the changes away instead of saving them
git_stash_push_discard(w, hist) ==
    [w EXCEPT !.disk = HeadContent(w, hist), !.other = {}]

\* "git stash push -u": saves every local change, untracked files included, in
\* a new top entry and cleans the tree; saves nothing when the tree is clean
git_stash_push(w, hist) ==
    IF AnyLocal(w, hist)
    THEN [w EXCEPT !.stash = <<[hint |-> IF w.disk # HeadContent(w, hist)
                                        THEN w.disk ELSE 0,
                               items |-> w.other]>> \o @,
                   !.disk = HeadContent(w, hist),
                   !.other = {}]
    ELSE w

\* a "git stash pop" that applies the top entry and removes it
git_stash_pop(w) ==
    [w EXCEPT !.disk = IF w.stash[1].hint # 0 THEN w.stash[1].hint ELSE w.disk,
              !.other = @ \cup w.stash[1].items,
              !.stash = Tail(@)]

-----------------------------------------------------------------------------
(* git_pull_rebase_autostash                                               *)

\* what the subprocesses of one call answer: the first pull succeeds, fails
\* with a "local changes" text (blocked) or fails with another text; the later
\* pulls, the stash push and the stash pop succeed or fail
LadderOutcomes ==
    [pull1 : {"ok", "blocked", "error"}, pull2 : BOOLEAN,
     stash : BOOLEAN, pull3 : BOOLEAN, pop : BOOLEAN]

SyncResult(ok, err, w, log, popped, pop_failed) ==
    [ok |-> ok, err |-> err, w |-> w, log |-> log,
     popped |-> popped, pop_failed |-> pop_failed]

\* a fallback that runs stash push, pull and pop a second time when the first
\* round failed
LadderStashFallback_again(w, hist, o, log) ==
    IF ~o.stash
    THEN SyncResult(FALSE, "autostash_failed", w,
                    log \o <<"stash_push", "status", "stash_list", "stash_push">>,
                    FALSE, FALSE)
    ELSE LET w1 == git_stash_push(w, hist) IN
         IF ~o.pull3
         THEN SyncResult(FALSE, "autostash_failed", w1,
                         log \o <<"stash_push", "pull", "status", "stash_list",
                                  "stash_push", "pull">>,
                         FALSE, FALSE)
         ELSE LET w2 == git_pull(w1, hist)
                  log2 == log \o <<"stash_push", "pull", "stash_pop">>
              IN IF w2.stash # <<>> /\ o.pop
                 THEN SyncResult(TRUE, "", git_stash_pop(w2), log2, TRUE, FALSE)
                 ELSE SyncResult(TRUE, "", w2, log2, FALSE, TRUE)

\* the stash / pull / pop fallback, log being the commands run so far
LadderStashFallback(w, hist, o, log) ==
    IF ~o.stash
    THEN SyncResult(FALSE, "autostash_failed", w, log \o <<"stash_push", "status", "stash_list">>,
                    FALSE, FALSE)
    ELSE LET w1 == git_stash_push(w, hist) IN
         IF ~o.pull3
         THEN SyncResult(FALSE, "autostash_failed", w1,
                         log \o <<"stash_push", "pull", "status", "stash_list">>,
                         FALSE, FALSE)
         ELSE LET w2 == git_pull(w1, hist)
                  log2 == log \o <<"stash_push", "pull", "stash_pop">>
              IN IF w2.stash # <<>> /\ o.pop
                 THEN SyncResult(TRUE, "", git_stash_pop(w2), log2, TRUE, FALSE)
                 ELSE SyncResult(TRUE, "", w2, log2, FALSE, TRUE)

\* a ladder that goes on to the stash fallback after any failure of the first
\* pull
git_pull_rebase_autostash_any_error(w, hist, auto_commit_paths, o) ==
    IF o.pull1 = "ok"
    THEN SyncResult(TRUE, "", git_pull(w, hist), <<"pull_autostash">>, FALSE, FALSE)
    ELSE LadderStashFallback(w, hist, o, <<"pull_autostash", "status">>)

git_pull_rebase_autostash(w, hist, auto_commit_paths, o) ==
    IF o.pull1 = "ok"
    THEN SyncResult(TRUE, "", git_pull(w, hist), <<"pull_autostash">>, FALSE, FALSE)
    ELSE IF o.pull1 = "error"
    THEN SyncResult(FALSE, "pull_error", w, <<"pull_autostash">>, FALSE, FALSE)
    ELSE IF auto_commit_paths
    THEN LET c == git_commit_path(w, hist, "auto") IN
         IF c.ok
         THEN IF o.pull2 /\ ~TrackedDirty(c.w, hist)
              THEN SyncResult(TRUE, "", git_pull(c.w, hist),
                              <<"pull_autostash", "status", "add", "commit", "pull">>,
                              FALSE, FALSE)
              ELSE LadderStashFallback(c.w, hist, o,
                              <<"pull_autostash", "status", "add", "commit", "pull">>)
         ELSE LadderStashFallback(w, hist, o,
                              <<"pull_autostash", "status", "add", "commit">>)
    ELSE LadderStashFallback(w, hist, o, <<"pull_autostash", "status">>)

\* the answers git can give on working copy w: the "local changes" text needs
\* local changes
PossibleOutcomes(w, hist) ==
    {o \in LadderOutcomes : o.pull1 = "blocked" => AnyLocal(w, hist)}

\* lengths of the error text of a failed git command: shorter than both cuts,
\* between them, longer than both
ErrLens == {200, 500, 1000}

\* len(s[:k]) for a text s of n characters
SliceLen(n, k) == IF n < k THEN n ELSE k

\* the lines of "git status --porcelain": the modified document and the other
\* local changes; the empty text when the command failed
StatusLines(w, hist, ok) ==
    IF ok THEN (IF w.disk # HeadContent(w, hist) THEN {"doc"} ELSE {}) \cup w.other
    ELSE {}

\* "git stash list": one line per entry; the empty text when the command failed
StashList(w, ok) == IF ok THEN Len(w.stash) ELSE 0

Part(kind, val) == [kind |-> kind, val |-> val]

\* a returned message that carries the whole error text
ReturnedMessage_untrimmed(errLen) ==
    <<Part("text", "Autostash/pull failed: "), Part("err", errLen),
      Part("text", " (diagnostics logged)")>>

\* f"Autostash/pull failed: {err3[:300]} (diagnostics logged)"
ReturnedMessage(errLen) ==
    <<Part("text", "Autostash/pull failed: "), Part("err", SliceLen(errLen, 300)),
      Part("text", " (diagnostics logged)")>>

\* the text given to logging.error
Diagnostics(errLen, status, status_after, stash_list) ==
    <<Part("err", SliceLen(errLen, 800)),
      Part("text", "-- git status --porcelain --before"), Part("status_before", status),
      Part("text", "-- git status --porcelain --after"), Part("status_after", status_after),
      Part("text", "-- git stash list"), Part("stash_list", stash_list)>>

NoReport == [returned |-> <<>>, logged |-> <<>>]

\* what a call that ended with result r on working copy w (before: w0) returns
\* as its message and writes to the log, the failed command's error text having
\* errLen characters and the three diagnostic commands succeeding or not
FailureReport(r, w0, hist, errLen, st) ==
    IF r.ok THEN NoReport
    ELSE IF "stash_push" \in {r.log[i] : i \in 1..Len(r.log)}
    THEN [returned |-> ReturnedMessage(errLen),
          logged |-> Diagnostics(errLen, StatusLines(w0, hist, st[1]),
                                 StatusLines(r.w, hist, st[2]),
                                 StashList(r.w, st[3]))]
    ELSE [returned |-> <<Part("err", SliceLen(errLen, 300))>>, logged |-> <<>>]

\* every subprocess succeeds
AllOk == [pull1 |-> "ok", pull2 |-> TRUE, stash |-> TRUE, pull3 |-> TRUE, pop |-> TRUE]

\* the calls of git_pull_rebase_autostash so far, and of the last one its
\* auto_commit_paths, the working copy before, what git answered and the result
SyncIdle ==
    [n |-> 0, ups |-> 0, hint |-> FALSE, before |-> NoRepo, o |-> AllOk,
     errLen |-> 0, report |-> NoReport,
     result |-> SyncResult(TRUE, "", NoRepo, <<>>, FALSE, FALSE)]

-----------------------------------------------------------------------------
(* Result of the handler that ran last                                     *)

\* what an upload did: whether the message was a good one, the content sent,
\* the hashes, whether a commit was made
\* and pushed, the ownership decisions at the gate and around the push
\* ("none" when not taken) with the lock answers they were taken on, whether the
\* temporary unlock and the re-lock went through, whether the sync went beyond
\* its first pull, and the working copy and remote history length of before
UpIdle ==
    [good |-> FALSE, content |-> NoFile, old_hash |-> NoHash, new_hash |-> NoHash,
     committed |-> FALSE, pushed |-> FALSE,
     gate |-> "none", info1 |-> NoLock, temp |-> "none", info2 |-> NoLock,
     released |-> FALSE, relocked |-> FALSE, fallback |-> FALSE,
     before |-> NoRepo, before_hist |-> 0, summary |-> {},
     caption |-> <<>>, pending |-> <<>>, size |-> "ok"]

Idle ==
    [op |-> "none", user |-> 0, path |-> NotFound,
     reply |-> "none", keyboard |-> FALSE, raised |-> FALSE,
     named |-> NoName, can_unlock |-> FALSE,
     calls |-> <<>>, net |-> TRUE, pre |-> NoLock, info |-> NoLock,
     err |-> "", marked |-> {}, repo |-> {}, up |-> UpIdle]

\* the global default repository; the repository of principal u is u
REPO_PATH == 0

\* the configured repository of the principal, or None
require_user_repo(u) == wc[u].exists

\* the repository of the principal if configured, otherwise REPO_PATH
get_repo_for_user_id(u) == IF wc[u].exists THEN u ELSE REPO_PATH

\* a reply sent with message.answer(..., reply_markup=...) by handler op; calls
\* are the remote primitives it ran, net tells that none of them failed in
\* transport, pre is the lock the remote held on p when the handler started
Reply(op, u, p, kind, kb, named, calls, net, info) ==
    [Idle EXCEPT !.op = op, !.user = u, !.path = p, !.reply = kind,
                 !.keyboard = kb, !.named = named, !.calls = calls,
                 !.net = net,
                 !.repo = IF calls = <<>> THEN {}
                          ELSE IF u \in Users THEN {get_repo_for_user_id(u)}
                          ELSE {REPO_PATH},
                 !.pre = IF p = NotFound THEN NoLock ELSE LockAt(p),
                 !.info = info]

LockStep(newLocks, r) ==
    /\ locks' = newLocks
    /\ res' = r
    /\ UNCHANGED <<lockCols, wc, remoteHist, sync, cfg, loop>>

Step(newLocks, newWc, newHist, r) ==
    /\ locks' = newLocks
    /\ wc' = newWc
    /\ remoteHist' = newHist
    /\ res' = r
    /\ UNCHANGED <<lockCols, sync, cfg, loop>>

\* the reply of require_user_repo to a principal without a repository
NotConfigured(op, u) ==
    LockStep(locks, Reply(op, u, NotFound, "not_configured", TRUE, NoName, <<>>,
                          TRUE, NoLock))

-----------------------------------------------------------------------------
(* lock_document_by_name                                                   *)

\* the branch after "git lfs lock" failed with error text err
LockFailed(u, p, err, calls, net) ==
    IF HasAlreadyLocked(err)
    THEN \E l2 \in BOOLEAN :
           LET info2 == get_lfs_lock_info(p, Listing(l2)) IN
           IF info2.found
           THEN LockStep(locks,
                    [Reply("lock", u, p, "already_locked", TRUE, info2.owner,
                           calls \o <<"list">>, net /\ l2, info2)
                       EXCEPT !.can_unlock = (GitUsername(u) = info2.owner)])
           ELSE LockStep(locks,
                    Reply("lock", u, p, "lock_failed", FALSE, NoName,
                          calls \o <<"list">>, net /\ l2, NoLock))
    ELSE IF HasSsh(err)
    THEN LockStep(locks, Reply("lock", u, p, "ssh_error", TRUE, NoName, calls,
                               FALSE, NoLock))
    ELSE LockStep(locks, Reply("lock", u, p, "lock_failed", FALSE, NoName, calls,
                               FALSE, NoLock))

lock_document_by_name(u, p) ==
    IF p = NotFound
    THEN LockStep(locks, Reply("lock", u, p, "not_found", TRUE, NoName, <<>>,
                               TRUE, NoLock))
    ELSE \E l1 \in BOOLEAN :
           LET lfs_lock_info == get_lfs_lock_info(p, Listing(l1)) IN
           IF lfs_lock_info.found
           THEN LockStep(locks,
                    Reply("lock", u, p, "already_locked", TRUE,
                          lfs_lock_info.owner, <<"list">>, TRUE, lfs_lock_info))
           ELSE \E proc \in RemoteCreate(p, Account(u)) :
                  IF proc.ok
                  THEN LockStep(proc.locks,
                           [Reply("lock", u, p, "locked", TRUE, NoName,
                                  <<"list", "lock">>, l1, NoLock)
                              EXCEPT !.can_unlock = TRUE])
                  ELSE LockFailed(u, p, proc.err, <<"list", "lock">>, l1)

LockRequest ==
    \E u \in Users, p \in Paths \cup {NotFound} :
      /\ p = NotFound \/ LockAt(p).found \/ Len(locks) < MaxLocks
      /\ lock_document_by_name(u, p)

-----------------------------------------------------------------------------
(* unlock_document_by_name                                                 *)

\* the lock a "git lfs unlock" of the handler addresses: by id when the listing
\* gave one, else by the bare file name
UnlockTarget(p, lfs_lock_info) ==
    IF lfs_lock_info.id # NoId THEN LockWithId(lfs_lock_info.id)
    ELSE LockAt(<<Basename(p)>>)

\* "git add rel" and "git commit" of the auto-commit: the commit exists only
\* when the file differs from HEAD
AutoCommit(u, p, by) ==
    [ok |-> DirtyAt(u, p),
     wc |-> IF DirtyAt(u, p)
            THEN [wc EXCEPT ![u].ahead =
                      Append(@, [content |-> wc[u].disk, by |-> by])]
            ELSE wc]

\* the branch after the first "git lfs unlock" failed with error text err; the
\* reply keeps err, the text the remote gave
UnlockFailed(u, p, lfs_lock_info, err, calls, net) ==
    IF HasUncommitted(err)
    THEN LET ac == AutoCommit(u, p, "unlock") IN
         IF ~ac.ok
         THEN Step(locks, ac.wc, remoteHist,
                  [Reply("unlock", u, p, "autocommit_error", TRUE, NoName,
                         calls \o <<"add", "commit">>, net, lfs_lock_info)
                     EXCEPT !.err = err])
         ELSE \E proc2 \in RemoteUnlock(UnlockTarget(p, lfs_lock_info),
                                        Account(u), FALSE, FALSE) :
                IF proc2.ok
                THEN Step(proc2.locks, ac.wc, remoteHist,
                         [Reply("unlock", u, p, "unlocked_after_autocommit", TRUE,
                                NoName, calls \o <<"add", "commit", "unlock">>, net,
                                lfs_lock_info)
                            EXCEPT !.err = err])
                ELSE Step(locks, ac.wc, remoteHist,
                         [Reply("unlock", u, p, "autocommit_error", TRUE, NoName,
                                calls \o <<"add", "commit", "unlock">>,
                                net /\ proc2.err \notin TransportErrs, lfs_lock_info)
                            EXCEPT !.err = err])
    ELSE IF HasSsh(err)
    THEN LockStep(locks, [Reply("unlock", u, p, "ssh_error", TRUE, NoName,
                                calls, FALSE, lfs_lock_info)
                            EXCEPT !.err = err])
    ELSE LockStep(locks, [Reply("unlock", u, p, "unlock_failed", TRUE, NoName,
                                calls, net /\ err \notin TransportErrs,
                                lfs_lock_info)
                            EXCEPT !.err = err])

unlock_document_by_name(u, p) ==
    IF p = NotFound
    THEN LockStep(locks, Reply("unlock", u, p, "not_found", TRUE, NoName, <<>>,
                               TRUE, NoLock))
    ELSE \E l1 \in BOOLEAN :
           LET lfs_lock_info == get_lfs_lock_info(p, Listing(l1))
               target == UnlockTarget(p, lfs_lock_info)
           IN
           IF ~lfs_lock_info.found
           THEN LockStep(locks, Reply("unlock", u, p, "not_locked", TRUE, NoName,
                                      <<"list">>, l1, NoLock))
           ELSE IF ~can_unlock(lfs_lock_info.owner, u)
           THEN LockStep(locks, Reply("unlock", u, p, "refused", TRUE,
                                      lfs_lock_info.owner, <<"list">>, TRUE,
                                      lfs_lock_info))
           ELSE \E proc \in RemoteUnlock(target, Account(u), FALSE,
                                         target.found /\ DirtyAt(u, target.path)) :
                  IF proc.ok
                  THEN LockStep(proc.locks,
                           Reply("unlock", u, p, "unlocked", TRUE, NoName,
                                 <<"list", "unlock">>, TRUE, lfs_lock_info))
                  ELSE UnlockFailed(u, p, lfs_lock_info, proc.err,
                                    <<"list", "unlock">>, TRUE)

UnlockRequest == \E u \in Users, p \in Paths \cup {NotFound} : unlock_document_by_name(u, p)

-----------------------------------------------------------------------------
(* force_unlock_request / force_unlock_by_name                             *)

force_unlock_by_name(u, p) ==
    IF ~is_admin(u)
    THEN LockStep(locks, Reply("force", u, p, "not_admin", TRUE, NoName, <<>>,
                               TRUE, NoLock))
    ELSE IF p = NotFound
    THEN LockStep(locks, Reply("force", u, p, "not_found", TRUE, NoName, <<>>,
                               TRUE, NoLock))
    ELSE \E proc \in RemoteUnlock(LockAt(<<Basename(p)>>), Account(u), TRUE, FALSE) :
           IF proc.ok
           THEN LockStep(proc.locks,
                    Reply("force", u, p, "force_unlocked", TRUE, NoName,
                          <<"force_unlock">>, TRUE, NoLock))
           ELSE LockStep(locks,
                    Reply("force", u, p, "force_failed", TRUE, NoName,
                          <<"force_unlock">>, proc.err \notin TransportErrs, NoLock))

ForceUnlockRequest == \E u \in Users, p \in Paths \cup {NotFound} : force_unlock_by_name(u, p)

-----------------------------------------------------------------------------
(* handle_doc_selection: shows the lock state of the selected document     *)

handle_doc_selection(u, p) ==
    IF p = NotFound
    THEN LockStep(locks, Reply("select", u, p, "doc_list", TRUE, NoName, <<>>,
                               TRUE, NoLock))
    ELSE \E l1 \in BOOLEAN :
           LET lfs_lock_info == get_lfs_lock_info(p, Listing(l1)) IN
           IF lfs_lock_info.found
           THEN LockStep(locks,
                    [Reply("select", u, p, "doc_locked", TRUE, lfs_lock_info.owner,
                           <<"list", "list">>, TRUE, lfs_lock_info)
                       EXCEPT !.can_unlock = can_unlock(lfs_lock_info.owner, u)])
           ELSE LockStep(locks,
                    Reply("select", u, p, "doc_unlocked", TRUE, NoName,
                          <<"list">>, l1, NoLock))

SelectDocument == \E u \in Users, p \in Paths \cup {NotFound} : handle_doc_selection(u, p)

-----------------------------------------------------------------------------
(* list_documents: the document list with its lock marks                   *)

\* the keys of git_lfs_locks: the path and the file name of every line of the
\* listing that has three parts or more
git_lfs_locks(out) ==
    {out[i][1] : i \in {j \in 1..Len(out) : Len(out[j]) >= 3}}
    \cup {<<Basename(out[i][1])>> : i \in {j \in 1..Len(out) : Len(out[j]) >= 3}}

\* doc_names: the file names of the documents of the working copy
doc_names == {<<Basename(p)>> : p \in Paths}

\* the names get_docs_keyboard shows with the lock sign
list_documents(u) ==
    IF ~require_user_repo(u) THEN NotConfigured("list", u)
    ELSE \E l1 \in BOOLEAN :
      LockStep(locks,
               [Reply("list", u, NotFound, "doc_list", TRUE, NoName, <<"list">>,
                      l1, NoLock)
                  EXCEPT !.marked = doc_names \cap git_lfs_locks(Listing(l1))])

ListDocuments == \E u \in Users : list_documents(u)


-----------------------------------------------------------------------------
(* handle_document_upload                                                  *)

\* a strip that leaves the text as it is
Strip_nothing(s) == s

RECURSIVE Strip(_)
\* str.strip() for the blank " "
Strip(s) ==
    IF s = <<>> THEN s
    ELSE IF Head(s) = " " THEN Strip(Tail(s))
    ELSE IF s[Len(s)] = " " THEN Strip(SubSeq(s, 1, Len(s) - 1))
    ELSE s

Captions == {<<>>, <<" ">>, <<"f", "i", "x">>}

\* a document message: whether it comes within the rate limit, its caption,
\* whether the file name passes the name checks, the bytes sent, the size
\* ("declared_big": the message announces more than 50 MB, "actual_big": the
\* saved file has more than 50 MB) and whether the download goes through
GoodMessage(c) ==
    [fresh |-> TRUE, caption |-> <<"f", "i", "x">>, pending |-> <<>>,
     name_ok |-> TRUE, content |-> c, size |-> "ok", dl_ok |-> TRUE]

\* the messages sent: a good one with either content, and a good one spoilt in
\* one respect
Messages ==
    {GoodMessage(c) : c \in Contents}
    \cup {[GoodMessage(2) EXCEPT !.fresh = FALSE],
          [GoodMessage(2) EXCEPT !.name_ok = FALSE],
          [GoodMessage(2) EXCEPT !.dl_ok = FALSE],
          [GoodMessage(2) EXCEPT !.content = EmptyBytes]}
    \cup {[GoodMessage(2) EXCEPT !.caption = t, !.pending = q] :
            t \in Captions, q \in Captions}
    \cup {[GoodMessage(2) EXCEPT !.size = z] : z \in {"declared_big", "actual_big"}}

\* bindings stored by load_user_repos()
user_repos == {v \in Users : wc[v].exists}

\* the state after an upload; sync.ups counts the uploads handled
UpStep(u, newLocks, newW, newHist, r, newSync) ==
    /\ locks' = newLocks
    /\ wc' = [wc EXCEPT ![u] = newW]
    /\ remoteHist' = newHist
    /\ res' = r
    /\ sync' = [newSync EXCEPT !.ups = @ + 1]
    /\ UNCHANGED <<lockCols, cfg, loop>>

UpReply(u, p, kind, kb, named, calls, net, info, up) ==
    [Reply("upload", u, p, kind, kb, named, calls, net, info) EXCEPT !.up = up]

\* the distinct results the ladder can give on working copy w
LadderResults(w, hist, auto_commit_paths) ==
    {git_pull_rebase_autostash(w, hist, auto_commit_paths, o) :
       o \in PossibleOutcomes(w, hist)}

\* stdout + stderr of a "git commit" that created nothing
CommitOutput(w, hist) ==
    IF ~AnyLocal(w, hist) THEN "nothing to commit, working tree clean"
    ELSE IF TrackedDirty(w, hist) THEN "no changes added to commit"
    ELSE "nothing added to commit but untracked files present"

\* 'nothing to commit' in output or 'working tree clean' in output
SaysNothingToCommit(output) == output = "nothing to commit, working tree clean"

\* a successful "git push": the local commits are the new end of the remote
\* history
git_push(w, hist) ==
    [w |-> [w EXCEPT !.ahead = <<>>, !.base = Len(hist) + Len(w.ahead)],
     hist |-> hist \o w.ahead]

NoCall(L) == {[ok |-> TRUE, err |-> "", locks |-> L]}

\* the re-lock after a successful push, by bare file name
UploadRelock(L, p, u, temp) ==
    IF temp THEN RemoteCreateIn(L, <<Basename(p)>>, Account(u)) ELSE NoCall(L)

\* the temporary unlock before the push, by bare file name; the file of that
\* name at the repository root has no uncommitted change at this point
UploadTempUnlock(L, p, u, temp) ==
    IF temp
    THEN RemoteUnlockIn(L, LockAtIn(L, <<Basename(p)>>), Account(u), FALSE, FALSE)
    ELSE NoCall(L)

\* the summary and the document menu that end a pipeline that did not fail;
\* AUTO_UNLOCK_ON_UPLOAD has its default, off
\* the parts of the summary text: what happened to the document, the commit
\* id, the hashes and the hint at the unlock button
SummaryParts(up) ==
    (IF up.committed THEN {"sent", "commit_id"} ELSE {"saved_locally", "no_changes"})
    \cup (IF up.old_hash # NoHash \/ up.new_hash # NoHash THEN {"hashes"} ELSE {})
    \cup {"unlock_hint"}

UploadSummary(u, p, L, w, hist, up, calls, net, sy) ==
    \E l3 \in BOOLEAN :
      LET lfs_lock_info == get_lfs_lock_info(p, ListingIn(L, l3)) IN
      UpStep(u, L, w, hist,
             [UpReply(u, p, IF up.committed THEN "uploaded" ELSE "saved_locally",
                      TRUE, NoName, calls \o <<"list">>, net /\ l3,
                      lfs_lock_info, [up EXCEPT !.summary = SummaryParts(up)])
                EXCEPT !.can_unlock = lfs_lock_info.found
                                      /\ can_unlock(lfs_lock_info.owner, u)],
             sy)

\* the push block that follows a created commit
UploadPush(u, p, w, hist, up, calls, net, sy) ==
    \E l2 \in BOOLEAN :
      LET lfs_lock_info == get_lfs_lock_info(p, Listing(l2))
          temp == lfs_lock_info.found
                  /\ is_temp_unlock_owner(lfs_lock_info.owner, u)
          up2 == [up EXCEPT !.temp = IF ~lfs_lock_info.found THEN "none"
                                     ELSE IF temp THEN "yes" ELSE "no",
                            !.info2 = lfs_lock_info]
          calls2 == calls \o <<"list">> \o (IF temp THEN <<"unlock">> ELSE <<>>)
                          \o <<"lfs_push", "push">>
      IN
      \E un \in UploadTempUnlock(locks, p, u, temp) :
        LET up3 == [up2 EXCEPT !.released = temp /\ un.ok]
            net3 == net /\ l2 /\ un.err \notin TransportErrs
        IN
        \E push_ok \in BOOLEAN :
          IF ~push_ok
          THEN UpStep(u, un.locks, w, hist,
                      UpReply(u, p, "push_failed", TRUE, NoName, calls2, FALSE,
                              lfs_lock_info, up3),
                      sy)
          ELSE \E rl \in UploadRelock(un.locks, p, u, temp) :
                 UploadSummary(u, p, rl.locks, git_push(w, hist).w,
                               git_push(w, hist).hist,
                               [up3 EXCEPT !.pushed = TRUE,
                                           !.relocked = temp /\ rl.ok],
                               calls2 \o (IF temp THEN <<"lock">> ELSE <<>>),
                               net3 /\ rl.err \notin TransportErrs, sy)

\* a pipeline that goes on to the commit whatever the sync returned
UploadCommit_ignores_sync(u, p, w, up, calls, net) ==
    \E r \in LadderResults(w, remoteHist, TRUE) :
      LET sy == [sync EXCEPT !.n = @ + 1, !.hint = TRUE, !.before = w,
                             !.result = r]
          up2 == [up EXCEPT !.fallback = (r.log # <<"pull_autostash">>)]
          calls2 == calls \o r.log
          commit_result == git_commit_path(r.w, remoteHist, "caption")
      IN
      IF commit_result.ok
      THEN UploadPush(u, p, commit_result.w, remoteHist,
                      [up2 EXCEPT !.committed = TRUE], calls2, net, sy)
      ELSE UploadSummary(u, p, locks, r.w, remoteHist, up2, calls2, net, sy)

\* from the sync to the commit, the file being written already
UploadCommit(u, p, w, up, calls, net) ==
    \E r \in LadderResults(w, remoteHist, TRUE) :
      LET sy == [sync EXCEPT !.n = @ + 1, !.hint = TRUE, !.before = w,
                             !.result = r]
          up2 == [up EXCEPT !.fallback = (r.log # <<"pull_autostash">>)]
          calls2 == calls \o r.log
          has_changes == AnyLocal(r.w, remoteHist)
          commit_result == git_commit_path(r.w, remoteHist, "caption")
      IN
      IF ~r.ok
      THEN UpStep(u, locks, r.w, remoteHist,
                  UpReply(u, p, "sync_failed", TRUE, NoName, calls2, FALSE,
                          NoLock, up2),
                  sy)
      ELSE IF ~has_changes
      THEN UploadSummary(u, p, locks, r.w, remoteHist, up2, calls2, net, sy)
      ELSE IF commit_result.ok
      THEN UploadPush(u, p, commit_result.w, remoteHist,
                      [up2 EXCEPT !.committed = TRUE], calls2, net, sy)
      ELSE IF SaysNothingToCommit(CommitOutput(r.w, remoteHist))
      THEN UploadSummary(u, p, locks, r.w, remoteHist, up2, calls2, net, sy)
      ELSE UpStep(u, locks, r.w, remoteHist,
                  UpReply(u, p, "commit_error", TRUE, NoName, calls2, net,
                          NoLock, up2),
                  sy)

\* the download into doc_path and the checks of the saved file
UploadSave(u, p, m, up, calls, net) ==
    LET w == wc[u]
        old_hash == IF w.disk # NoFile THEN Hash(w.disk) ELSE NoHash
        up2 == [up EXCEPT !.old_hash = old_hash]
    IN
    IF ~m.dl_ok
    THEN UpStep(u, locks, w, remoteHist,
                UpReply(u, p, "download_failed", TRUE, NoName, calls, net,
                        NoLock, up2),
                sync)
    ELSE IF m.content = EmptyBytes
    THEN UpStep(u, locks, [w EXCEPT !.disk = EmptyBytes], remoteHist,
                UpReply(u, p, "save_error", TRUE, NoName, calls, net, NoLock, up2),
                sync)
    ELSE IF m.size = "actual_big"
    THEN UpStep(u, locks, [w EXCEPT !.disk = NoFile], remoteHist,
                UpReply(u, p, "too_big", TRUE, NoName, calls, net, NoLock, up2),
                sync)
    ELSE UploadCommit(u, p, [w EXCEPT !.disk = m.content],
                      [up2 EXCEPT !.new_hash = Hash(m.content)], calls, net)

\* the lock gate
UploadGate(u, p, m, up) ==
    \E l1 \in BOOLEAN :
      LET lfs_lock_info == get_lfs_lock_info(p, Listing(l1))
          lfs_locked_by_other ==
              lfs_lock_info.found /\ ~is_lock_owner(lfs_lock_info.owner, u)
          up2 == [up EXCEPT !.gate = IF ~lfs_lock_info.found THEN "none"
                                     ELSE IF lfs_locked_by_other THEN "other"
                                     ELSE "owner",
                            !.info1 = lfs_lock_info]
      IN
      IF lfs_locked_by_other
      THEN IF user_repos # {}
           THEN UpStep(u, locks, wc[u], remoteHist,
                       [UpReply(u, p, "none", FALSE, NoName, <<"list">>, TRUE,
                                lfs_lock_info, up2)
                          EXCEPT !.raised = TRUE],
                       sync)
           ELSE UpStep(u, locks, wc[u], remoteHist,
                       UpReply(u, p, "lock_conflict", TRUE, lfs_lock_info.owner,
                               <<"list">>, TRUE, lfs_lock_info, up2),
                       sync)
      ELSE UploadSave(u, p, m, up2, <<"list">>, l1)

\* the caption the pipeline works with: the pending caption of the session when
\* there is a non-empty one, else the caption of the message; an absent caption
\* and an empty one are both <<>>
caption_of(m) == IF m.pending # <<>> THEN m.pending ELSE m.caption

handle_document_upload(u, m) ==
    LET p == wc[u].doc
        up == [UpIdle EXCEPT !.good = (m \in {GoodMessage(c) : c \in Contents}),
                             !.caption = m.caption, !.pending = m.pending,
                             !.size = m.size,
                             !.content = m.content, !.before = wc[u],
                             !.before_hist = Len(remoteHist)]
        Reject(kind, kb) ==
            UpStep(u, locks, wc[u], remoteHist,
                   UpReply(u, p, kind, kb, NoName, <<>>, TRUE, NoLock, up), sync)
    IN
    IF ~m.fresh THEN Reject("rate_limited", FALSE)
    ELSE IF ~wc[u].exists THEN Reject("no_repo", TRUE)
    ELSE IF caption_of(m) = <<>> \/ Strip(caption_of(m)) = <<>>
    THEN Reject("caption_required", FALSE)
    ELSE IF ~m.name_ok \/ m.size = "declared_big" THEN Reject("bad_file", FALSE)
    ELSE UploadGate(u, p, m, up)

\* at most MaxUploads uploads are handled; the re-lock needs room among the
\* MaxLocks locks; the oversize file that is removed after the download is a
\* document of docs/
Upload ==
    \E u \in Users, m \in Messages :
      /\ sync.ups < MaxUploads
      /\ Len(locks) < MaxLocks \/ LockAt(P_root).found
      /\ m.size = "actual_big" => wc[u].doc = P_docs
      /\ handle_document_upload(u, m)

-----------------------------------------------------------------------------
(* Editors acting on the remote outside the bot                            *)

\* someone locks one of the paths ps with git lfs
ExternalLockOn(ps) ==
    \E p \in ps, t \in Tokens :
      /\ Len(locks) < MaxLocks
      /\ ~LockAt(p).found
      /\ locks' = Append(locks, [path |-> p, owner |-> t, id |-> LockId(p)])
      /\ res' = Idle
      /\ UNCHANGED <<lockCols, wc, remoteHist, sync, cfg, loop>>

ExternalLock == ExternalLockOn(Paths)

ExternalUnlock ==
    \E i \in 1..Len(locks) :
      /\ locks' = RemoveAt(locks, i)
      /\ res' = Idle
      /\ UNCHANGED <<lockCols, wc, remoteHist, sync, cfg, loop>>

-----------------------------------------------------------------------------

Init ==
    /\ locks = <<>>
    /\ lockCols \in {2, 3}
    /\ wc = [u \in Users |-> CleanWc]
    /\ remoteHist = <<[content |-> 1, by |-> "init"]>>
    /\ res = Idle
    /\ sync = SyncIdle
    /\ cfg = CfgIdle
    /\ loop = LoopIdle

Next ==
    \/ LockRequest
    \/ UnlockRequest
    \/ ForceUnlockRequest
    \/ SelectDocument
    \/ ExternalLock
    \/ ExternalUnlock

Spec == Init /\ [][Next]_vars

\* lock_document and unlock_document: the buttons of a selected document
lock_document(u, p) ==
    IF ~require_user_repo(u) THEN NotConfigured("lock", u)
    ELSE lock_document_by_name(u, p)

unlock_document(u, p) ==
    IF ~require_user_repo(u) THEN NotConfigured("unlock", u)
    ELSE unlock_document_by_name(u, p)

LockDocument ==
    \E u \in Users, p \in Paths :
      /\ LockAt(p).found \/ Len(locks) < MaxLocks
      /\ lock_document(u, p)

UnlockDocument == \E u \in Users, p \in Paths : unlock_document(u, p)

\* principals with and without a configured repository; a principal without
\* one selects documents that the global default repository holds
InitBinding ==
    /\ locks = <<>>
    /\ lockCols = 3
    /\ wc \in {w \in [Users -> {CleanWc, NoRepo}] : w[1] = CleanWc /\ w[2] = NoRepo}
    /\ remoteHist = <<[content |-> 1, by |-> "init"]>>
    /\ res = Idle
    /\ sync = SyncIdle
    /\ cfg = CfgIdle
    /\ loop = LoopIdle

NextBinding ==
    \/ LockDocument
    \/ UnlockDocument
    \/ ForceUnlockRequest
    \/ SelectDocument
    \/ ListDocuments
    \/ ExternalLock
    \/ ExternalUnlock

SpecBinding == InitBinding /\ [][NextBinding]_vars

\* the document list, with other editors locking and unlocking
NextList ==
    \/ ListDocuments
    \/ ExternalLock
    \/ ExternalUnlock

SpecList == Init /\ [][NextList]_vars

-----------------------------------------------------------------------------
(* Unlock requests on working copies that may hold an uncommitted document *)

\* one principal's working copy holds the document at either place, as in HEAD
\* or modified and not committed
InitRelease ==
    /\ locks = <<>>
    /\ lockCols \in {2, 3}
    /\ remoteHist = <<[content |-> 1, by |-> "init"]>>
    /\ res = Idle
    /\ sync = SyncIdle
    /\ cfg = CfgIdle
    /\ loop = LoopIdle
    /\ \E u0 \in Users, d \in {P_docs, P_root}, c \in Contents :
         wc = [u \in Users |->
                 IF u = u0 THEN [CleanWc EXCEPT !.doc = d, !.disk = c]
                 ELSE CleanWc]

NextRelease ==
    \/ UnlockRequest
    \/ ExternalLock
    \/ ExternalUnlock

SpecRelease == InitRelease /\ [][NextRelease]_vars

-----------------------------------------------------------------------------
(* The upload pipeline of one configured principal, with other editors     *)
(* locking, unlocking and pushing                                          *)

ExternalPush ==
    \E c \in Contents :
      /\ Len(SelectSeq(remoteHist, LAMBDA e : e.by = "ext")) < MaxHist
      /\ remoteHist' = Append(remoteHist, [content |-> c, by |-> "ext"])
      /\ res' = Idle
      /\ UNCHANGED <<locks, lockCols, wc, sync, cfg, loop>>

\* the two places of the uploaded document
ExternalLockDoc == ExternalLockOn({P_docs, P_root})

\* the principals who upload
Uploaders == {1, 2}

InitUpload ==
    /\ locks = <<>>
    /\ lockCols = 3
    /\ remoteHist = <<[content |-> 1, by |-> "init"]>>
    /\ res = Idle
    /\ sync = SyncIdle
    /\ cfg = CfgIdle
    /\ loop = LoopIdle
    /\ \E u0 \in Uploaders, d \in {P_docs, P_root}, c \in Contents,
          o \in {{}, {"other"}, {"untracked"}} :
         wc = [u \in Users |->
                 IF u = u0
                 THEN [CleanWc EXCEPT !.doc = d, !.disk = c, !.other = o]
                 ELSE NoRepo]

NextUpload ==
    \/ Upload
    \/ ExternalLockDoc
    \/ ExternalUnlock
    \/ ExternalPush

SpecUpload == InitUpload /\ [][NextUpload]_vars

-----------------------------------------------------------------------------
(* IdentityResolver as the specification states it                         *)

ResolveIsOwner(ownerToken, u) ==
    \/ ownerToken = Str(u)
    \/ (GitUsername(u) # NoName /\ Lower(ownerToken) = Lower(GitUsername(u)))

PrincipalIsAdmin(u) == Str(u) \in ADMIN_IDS

ResolveCanUnlock(ownerToken, u) == ResolveIsOwner(ownerToken, u) \/ PrincipalIsAdmin(u)

-----------------------------------------------------------------------------
(* LockCoordinator                                                         *)

\* C1: when the remote holds a lock on p owned by principal A, a lock request
\* by another principal B whose remote calls are all answered ends with the
\* already-locked reply naming A, and the lock on p is still the same lock.
C1_LockConflictNamesOwner ==
    \A A \in Users :
      (/\ res.op = "lock" /\ res.path # NotFound /\ res.net
       /\ A # res.user
       /\ res.pre.found /\ res.pre.owner = Account(A))
      => (/\ res.reply = "already_locked"
          /\ res.named = Account(A)
          /\ LockAt(res.path) = res.pre)

\* C6: release(p, principal) runs the remote unlock only when the principal can
\* unlock the lock currently held on p; a principal who is neither its owner nor
\* an admin is refused and the lock on p stays; on an unlocked p no remote
\* unlock is run.
C6_ReleaseRequiresCanUnlock ==
    (res.op = "unlock" /\ res.path # NotFound /\ res.net)
    => (/\ ("unlock" \in Range(res.calls))
           => (res.pre.found /\ ResolveCanUnlock(res.pre.owner, res.user))
        /\ (res.pre.found /\ ~ResolveCanUnlock(res.pre.owner, res.user))
           => (res.reply = "refused" /\ LockAt(res.path) = res.pre)
        /\ (~res.pre.found) => ("unlock" \notin Range(res.calls)))

\* C7: forceRelease(p) runs the remote force-unlock exactly when the requester
\* is an admin, whoever owns the lock; for a non-admin the lock on p stays.
C7_ForceReleaseIffAdmin ==
    (res.op = "force" /\ res.path # NotFound)
    => (/\ ("force_unlock" \in Range(res.calls)) <=> PrincipalIsAdmin(res.user)
        /\ ~PrincipalIsAdmin(res.user)
           => (LockAt(res.path) = res.pre /\ res.calls = <<>>))

\* an admin force-unlocked a lock that another account owns
C7_Witness ==
    /\ res.op = "force" /\ PrincipalIsAdmin(res.user)
    /\ res.reply = "force_unlocked"
    /\ res.pre.found /\ ~ResolveIsOwner(res.pre.owner, res.user)
    /\ ~LockAt(res.path).found

\* the first lock, in listing order, that the path matching accepts for p
FirstMatching(p) ==
    CHOOSE i \in 1..Len(locks) :
      /\ MatchesPath(locks[i].path, p)
      /\ \A j \in 1..(i - 1) : ~MatchesPath(locks[j].path, p)

\* the answer in res is what the remote holds now
AnswerIsCurrent ==
    IF \E i \in 1..Len(locks) : MatchesPath(locks[i].path, res.path)
    THEN /\ res.info.found
         /\ res.info.path = locks[FirstMatching(res.path)].path
         /\ res.info.owner = locks[FirstMatching(res.path)].owner
    ELSE ~res.info.found

\* C8: queryLock is read-only and uncached: an answered query returns what the
\* remote holds at that moment, it changes no remote and no local state, and
\* two consecutive queries of one path return the same answer.
C8_QueryFreshReadOnly ==
    /\ []((res.op = "select" /\ res.path # NotFound /\ res.net) => AnswerIsCurrent)
    /\ [][res'.op = "select" => UNCHANGED <<locks, lockCols, wc, remoteHist, sync, cfg, loop>>]_vars
    /\ [][(/\ res.op = "select" /\ res'.op = "select"
           /\ res.path = res'.path /\ res.net /\ res'.net)
          => res'.info = res.info]_vars

\* a query answered with a lock that was created after the start
C8_Witness ==
    /\ res.op = "select" /\ res.net
    /\ res.info.found /\ LockAt(res.info.path).found

-----------------------------------------------------------------------------
(* UploadPipeline                                                          *)

\* the upload passed the message checks and asked for the locks
UploadAtGate == res.op = "upload" /\ res.calls # <<>>

\* a good message was uploaded by a configured principal, no remote call of the
\* pipeline failed in transport and the sync needed no fallback
UploadAllWell ==
    /\ UploadAtGate /\ res.up.good
    /\ res.net /\ ~res.up.fallback

\* C2: when the remote holds a lock on p whose owner the uploader of a good
\* message matches neither by chat id nor by VCS username, and the list of
\* locks was answered,
\* the upload ends with the lock-conflict reply naming the owner, and the
\* working copy (file, local commits) and the remote history are as before.
C2_UploadConflictChangesNothing ==
    (/\ UploadAtGate /\ res.up.good
     /\ res.pre.found /\ ~ResolveIsOwner(res.pre.owner, res.user)
     /\ res.up.gate # "none")
    => (/\ res.reply = "lock_conflict"
        /\ res.named = res.pre.owner
        /\ wc[res.user] = res.up.before
        /\ Len(remoteHist) = res.up.before_hist)

\* the content sent differs from the committed file and from the remote's
ChangedContent ==
    /\ res.up.content # HeadContent(res.up.before, remoteHist)
    /\ res.up.content # remoteHist[res.up.before_hist].content

\* C3: when the uploader owns the lock on p, sends changed content with a
\* description, the sync's pull goes through and no remote call fails in
\* transport, the reply is the pushed-commit summary, the remote history ends
\* with a commit of the new content, and p is locked by the uploader at the end.
C3_OwnerUploadCommitsKeepsLock ==
    (/\ UploadAllWell
     /\ res.pre.found /\ ResolveIsOwner(res.pre.owner, res.user)
     /\ ChangedContent)
    => (/\ res.reply = "uploaded"
        /\ res.up.committed /\ res.up.pushed
        /\ remoteHist[Len(remoteHist)] = [content |-> res.up.content, by |-> "caption"]
        /\ LockAt(res.path).found
        /\ ResolveIsOwner(LockAt(res.path).owner, res.user))

\* C4: an upload of exactly the committed content, on a working copy that is
\* level with the remote and whose file is the committed one, with whatever
\* other local changes, reports the saved-locally success with equal hashes,
\* makes no commit and no push and runs no unlock and no lock.
C4_UnchangedUploadIsNoOp ==
    (/\ UploadAllWell
     /\ res.up.before.ahead = <<>> /\ res.up.before.base = res.up.before_hist
     /\ res.up.before.disk = res.up.content
     /\ res.up.content = HeadContent(res.up.before, remoteHist))
    => (/\ res.reply = "saved_locally"
        /\ ~res.up.committed
        /\ res.up.old_hash = res.up.new_hash
        /\ wc[res.user].ahead = <<>>
        /\ Len(remoteHist) = res.up.before_hist
        /\ Range(res.calls) \cap {"push", "lfs_push", "unlock", "lock"} = {})

\* C5: every ownership decision is the specification's isOwner, and every
\* can-unlock decision is isOwner or isAdmin: at the upload gate, around the
\* push, in the unlock handler's refusal and in the menus.
C5_OwnershipSameEverywhere ==
    /\ (res.op = "upload" /\ res.net /\ res.up.gate # "none")
       => ((res.up.gate = "owner") <=> ResolveIsOwner(res.up.info1.owner, res.user))
    /\ (res.op = "upload" /\ res.net /\ res.up.temp # "none")
       => ((res.up.temp = "yes") <=> ResolveIsOwner(res.up.info2.owner, res.user))
    /\ (res.op = "upload" /\ res.reply \in {"uploaded", "saved_locally"} /\ res.info.found)
       => (res.can_unlock <=> ResolveCanUnlock(res.info.owner, res.user))
    /\ (res.op = "select" /\ res.info.found)
       => (res.can_unlock <=> ResolveCanUnlock(res.info.owner, res.user))
    /\ (res.op = "unlock" /\ res.info.found)
       => ((res.reply = "refused") <=> ~ResolveCanUnlock(res.info.owner, res.user))

-----------------------------------------------------------------------------
(* SyncEngine on its own: one working copy, any local changes              *)

SyncUser == 1

OldEntry == [hint |-> 0, items |-> {"old"}]

InitSync ==
    /\ locks = <<>>
    /\ lockCols = 3
    /\ res = Idle
    /\ sync = SyncIdle
    /\ cfg = CfgIdle
    /\ loop = LoopIdle
    /\ remoteHist \in {<<[content |-> 1, by |-> "init"]>>,
                       <<[content |-> 1, by |-> "init"], [content |-> 2, by |-> "caption"]>>}
    /\ \E d \in Contents, o \in SUBSET {"other", "untracked"},
          st \in {<<>>, <<OldEntry>>} :
         wc = [u \in Users |->
                 IF u = SyncUser
                 THEN [CleanWc EXCEPT !.disk = d, !.other = o, !.stash = st]
                 ELSE NoRepo]

RebasePull ==
    /\ sync.n < MaxSyncRuns
    /\ \E hint \in BOOLEAN, o \in PossibleOutcomes(wc[SyncUser], remoteHist) :
         LET r == git_pull_rebase_autostash(wc[SyncUser], remoteHist, hint, o) IN
         /\ wc' = [wc EXCEPT ![SyncUser] = r.w]
         /\ \E errLen \in (IF r.ok THEN {0} ELSE ErrLens),
               st \in (IF "stash_list" \in Range(r.log)
                       THEN {<<TRUE, TRUE, TRUE>>, <<FALSE, FALSE, FALSE>>}
                       ELSE {<<TRUE, TRUE, TRUE>>}) :
              sync' = [sync EXCEPT !.n = @ + 1, !.hint = hint, !.o = o,
                                   !.before = wc[SyncUser], !.result = r,
                                   !.errLen = errLen,
                                   !.report = FailureReport(r, wc[SyncUser],
                                                            remoteHist, errLen, st)]
    /\ UNCHANGED <<locks, lockCols, remoteHist, res, cfg, loop>>

NextSync == RebasePull

SpecSync == InitSync /\ [][NextSync]_vars

-----------------------------------------------------------------------------
(* SyncEngine                                                              *)

\* content c is in the working tree, in a local commit or in a stash entry
ContentKept(w, c) ==
    \/ w.disk = c
    \/ \E k \in 1..Len(w.ahead) : w.ahead[k].content = c
    \/ \E k \in 1..Len(w.stash) : w.stash[k].hint = c

\* local change i is in the working tree or in a stash entry
ItemKept(w, i) ==
    \/ i \in w.other
    \/ \E k \in 1..Len(w.stash) : i \in w.stash[k].items

\* C9: after rebasePull returns, with success or failure, every local change
\* that existed before (modified document, other modified file, untracked file)
\* is in the working tree, in a local commit or in a stash entry; and when the
\* stash push, the pull and the stash pop of the fallback all succeeded the
\* call reports success and an untracked file of before is in the working tree.
C9_LocalChangesRecoverable ==
    (sync.n > 0)
    => (/\ sync.before.disk # HeadContent(sync.before, remoteHist)
           => ContentKept(wc[SyncUser], sync.before.disk)
        /\ \A i \in sync.before.other : ItemKept(wc[SyncUser], i)
        /\ sync.result.popped
           => (/\ sync.result.ok
               /\ "untracked" \in sync.before.other
                  => "untracked" \in wc[SyncUser].other))

\* scenario 3: an untracked file, a remote that moved on, the fallback ran
\* stash push, pull and pop, and the file is back in the working tree
C9_Witness ==
    /\ sync.n > 0
    /\ "untracked" \in sync.before.other
    /\ sync.before.base < Len(remoteHist)
    /\ "stash_push" \in Range(sync.result.log)
    /\ sync.result.popped /\ sync.result.ok
    /\ "untracked" \in wc[SyncUser].other
    /\ wc[SyncUser].base = Len(remoteHist)

IsSuffix(s, t) ==
    /\ Len(s) <= Len(t)
    /\ SubSeq(t, Len(t) - Len(s) + 1, Len(t)) = s

\* C10: whenever rebasePull returns success, outside the branch where the pop
\* failed and the stash was left, there are no more stash entries than before
\* and every entry that existed before is still there.
C10_SuccessKeepsStash ==
    (sync.n > 0 /\ sync.result.ok /\ ~sync.result.pop_failed)
    => (/\ Len(wc[SyncUser].stash) <= Len(sync.before.stash)
        /\ IsSuffix(sync.before.stash, wc[SyncUser].stash))

-----------------------------------------------------------------------------
(* detect_repository_type                                                  *)

RECURSIVE Contains(_, _)
\* sub in s
Contains(s, sub) ==
    IF Len(sub) > Len(s) THEN FALSE
    ELSE IF SubSeq(s, 1, Len(sub)) = sub THEN TRUE
    ELSE Contains(Tail(s), sub)

\* s.startswith(pre)
StartsWith(s, pre) == Len(pre) <= Len(s) /\ SubSeq(s, 1, Len(pre)) = pre

\* s.endswith(suf)
EndsWith(s, suf) ==
    Len(suf) <= Len(s) /\ SubSeq(s, Len(s) - Len(suf) + 1, Len(s)) = suf

T_github == <<"g", "i", "t", "h", "u", "b">>
T_gitlab == <<"g", "i", "t", "l", "a", "b">>
T_github_com == <<"g", "i", "t", "h", "u", "b", ".", "c", "o", "m">>
T_gitlab_com == <<"g", "i", "t", "l", "a", "b", ".", "c", "o", "m">>
T_https == <<"h", "t", "t", "p", "s", ":", "/", "/">>
T_git_at == <<"g", "i", "t", "@">>
T_dot_git == <<".", "g", "i", "t">>

\* the argument None
UrlNone == <<"None">>

REPO_TYPES == [GITHUB |-> "github", GITLAB |-> "gitlab", UNKNOWN |-> "unknown"]

detect_repository_type(repo_url) ==
    IF repo_url = UrlNone \/ repo_url = <<>> THEN REPO_TYPES.UNKNOWN
    ELSE LET url_lower == Strip(Lower(repo_url)) IN
         IF \/ Contains(url_lower, T_github_com)
            \/ StartsWith(url_lower, T_git_at \o T_github_com \o <<":">>)
            \/ StartsWith(url_lower, T_https \o T_github_com \o <<"/">>)
         THEN REPO_TYPES.GITHUB
         ELSE IF \/ Contains(url_lower, T_gitlab_com)
                 \/ StartsWith(url_lower, T_git_at \o T_gitlab_com \o <<":">>)
                 \/ StartsWith(url_lower, T_https \o T_gitlab_com \o <<"/">>)
         THEN REPO_TYPES.GITLAB
         ELSE IF \/ Contains(url_lower, <<".">> \o T_gitlab \o <<".">>)
                 \/ Contains(url_lower, T_gitlab \o <<"-">>)
                 \/ EndsWith(url_lower, <<"/">> \o T_gitlab)
                 \/ (Contains(url_lower, T_gitlab) /\ ~Contains(url_lower, T_github))
         THEN REPO_TYPES.GITLAB
         ELSE REPO_TYPES.UNKNOWN

\* URLs a principal may type or a caller may pass: scheme, host, project
\* path and ending
Schemes == {T_https, <<"H", "T", "T", "P", "S", ":", "/", "/">>, T_git_at}
Hosts == {T_github_com, <<"G", "I", "T", "H", "U", "B", ".", "C", "O", "M">>, T_gitlab_com, <<"G", "I", "T", "L", "A", "B", ".", "C", "O", "M">>,
          <<"c", "o", "m", "p", "a", "n", "y", ".", "g", "i", "t", "l", "a", "b", ".", "c", "o", "m">>,
          <<"g", "i", "t", "l", "a", "b", ".", "c", "o", "r", "p", ".", "i", "o">>,
          <<"g", "i", "t", ".", "c", "o", "r", "p", ".", "i", "o">>,
          <<"b", "i", "t", "b", "u", "c", "k", "e", "t", ".", "o", "r", "g">>,
          <<"e", "x", "a", "m", "p", "l", "e", ".", "c", "o", "m">>}
ProjectPaths == {<<"u", "/", "r">>,
                 <<"g", "/", "g", "i", "t", "h", "u", "b", ".", "c", "o", "m">>,
                 <<"g", "/", "g", "i", "t", "h", "u", "b", "-", "s", "y", "n", "c">>,
                 <<"g", "/", "g", "i", "t", "l", "a", "b", "-", "d", "o", "c", "s">>}
Endings == {<<>>, T_dot_git, <<"/">>}

UrlInputs ==
    [kind : {"url"}, scheme : Schemes, host : Hosts, path : ProjectPaths,
     ending : Endings]
    \cup {[kind |-> k, scheme |-> <<>>, host |-> <<>>, path |-> <<>>, ending |-> <<>>] :
            k \in {"none", "empty"}}

\* the text of an input
UrlText(i) ==
    IF i.kind = "none" THEN UrlNone
    ELSE IF i.kind = "empty" THEN <<>>
    ELSE i.scheme \o i.host
         \o (IF Lower(i.scheme) = T_git_at THEN <<":">> ELSE <<"/">>)
         \o i.path \o i.ending

-----------------------------------------------------------------------------
(* UserRepoStore and perform_user_repo_setup                               *)

\* at most MaxSetups setup and store operations are run
MaxSetups == 2

\* the directories /app/user_repos/<n>
DirIds == Users

\* cfg.dirs holds the cloned working copies: directory, configured remote
\* origin and configured lfs.url
NoDir == [dir |-> 0, origin |-> <<>>, lfs_url |-> <<>>]

DirAt(dirs, d) ==
    IF \E k \in 1..Len(dirs) : dirs[k].dir = d
    THEN dirs[CHOOSE k \in 1..Len(dirs) : dirs[k].dir = d]
    ELSE NoDir

\* shutil.rmtree(repo_path)
rmtree(dirs, d) == SelectSeq(dirs, LAMBDA e : e.dir # d)

\* git clone url repo_path
git_clone(dirs, d, url) ==
    Append(rmtree(dirs, d), [dir |-> d, origin |-> url, lfs_url |-> <<>>])

NoBinding == [key |-> <<>>, telegram_id |-> 0, git_username |-> NoName,
              repo_path |-> 0, repo_url |-> UrlNone, repo_type |-> "none"]

\* an assignment that always adds an entry
DictSet_append(m, key, v) == Append(m, v)

\* m[key] = v on a dict, which keeps insertion order
DictSet(m, key, v) ==
    IF \E k \in 1..Len(m) : m[k].key = key
    THEN [k \in 1..Len(m) |-> IF m[k].key = key THEN v ELSE m[k]]
    ELSE Append(m, v)

set_user_repo(m, user_id, repo_path, repo_url, username) ==
    LET composite_key == IF username # NoName
                         THEN Str(user_id) \o <<":">> \o username
                         ELSE Str(user_id)
        repo_type == IF repo_url # UrlNone /\ repo_url # <<>>
                     THEN detect_repository_type(repo_url)
                     ELSE REPO_TYPES.UNKNOWN
    IN DictSet(m, composite_key,
               [key |-> composite_key, telegram_id |-> user_id,
                git_username |-> username, repo_path |-> repo_path,
                repo_url |-> repo_url, repo_type |-> repo_type])

get_user_repo_first_only(m, user_id, git_username) ==
    IF \E k \in 1..Len(m) : Str(m[k].telegram_id) = Str(user_id)
    THEN m[CHOOSE k \in 1..Len(m) :
             /\ Str(m[k].telegram_id) = Str(user_id)
             /\ \A j \in 1..(k - 1) : Str(m[j].telegram_id) # Str(user_id)]
    ELSE NoBinding

get_user_repo(m, user_id, git_username) ==
    LET composite_key == Str(user_id) \o <<":">> \o git_username IN
    IF git_username # NoName /\ \E k \in 1..Len(m) : m[k].key = composite_key
    THEN m[CHOOSE k \in 1..Len(m) : m[k].key = composite_key]
    ELSE IF \E k \in 1..Len(m) : Str(m[k].telegram_id) = Str(user_id)
    THEN LET first == CHOOSE k \in 1..Len(m) :
                        /\ Str(m[k].telegram_id) = Str(user_id)
                        /\ \A j \in 1..(k - 1) : Str(m[j].telegram_id) # Str(user_id)
         IN m[first]
    ELSE NoBinding

create_basic_user_entry(m, user_id) ==
    DictSet(m, Str(user_id),
            [key |-> Str(user_id), telegram_id |-> user_id, git_username |-> NoName,
             repo_path |-> user_id, repo_url |-> UrlNone,
             repo_type |-> REPO_TYPES.UNKNOWN])

\* user_repos[key]['repo_url'] = repo_url, ['repo_type'] = repo_type for the
\* first binding of the principal
UpdateFirstBinding(m, user_id, repo_url, repo_type) ==
    [k \in 1..Len(m) |->
       IF /\ Str(m[k].telegram_id) = Str(user_id)
          /\ \A j \in 1..(k - 1) : Str(m[j].telegram_id) # Str(user_id)
       THEN [m[k] EXCEPT !.repo_url = repo_url, !.repo_type = repo_type]
       ELSE m[k]]

SetupOut(u, url, type, reply, clone_attempted) ==
    [op |-> "setup", user |-> u, url |-> url, type |-> type, reply |-> reply,
     clone_attempted |-> clone_attempted,
     store_before |-> cfg.store, dirs_before |-> cfg.dirs]

\* user_edit_sessions[u]: what the next text of the principal is taken for
Session(kind, repo_url, repo_type, git_username) ==
    [kind |-> kind, repo_url |-> repo_url, repo_type |-> repo_type,
     git_username |-> git_username]

FlowStep(store, dirs, out, session) ==
    /\ cfg' = [store |-> store, dirs |-> dirs, n |-> cfg.n + 1, out |-> out,
               session |-> session]
    /\ UNCHANGED <<locks, lockCols, wc, remoteHist, res, sync, loop>>

CfgStep(store, dirs, out) == FlowStep(store, dirs, out, cfg.session)

\* setup_user_own_repository: the session in which the URL is asked for
SetupSession(u) ==
    [cfg.session EXCEPT ![u] = Session("setup_own_repo", <<>>, "none", NoName)]

\* the branch of perform_user_repo_setup that clones at once
SetupOverHttps(u, repo_url, repo_type, clone_ok) ==
    LET found == get_user_repo(cfg.store, u, NoName)
        m1 == IF found = NoBinding
              THEN create_basic_user_entry(cfg.store, u) ELSE cfg.store
        user_repo == get_user_repo(m1, u, NoName)
        repo_path == user_repo.repo_path
        removed == rmtree(cfg.dirs, repo_path)
    IN IF clone_ok
       THEN FlowStep(UpdateFirstBinding(m1, u, repo_url, repo_type),
                     git_clone(cfg.dirs, repo_path, repo_url),
                     SetupOut(u, repo_url, repo_type, "cloned", TRUE),
                     [cfg.session EXCEPT ![u] =
                        Session("collect_git_username", repo_url, repo_type, NoName)])
       ELSE FlowStep(m1, removed,
                     SetupOut(u, repo_url, repo_type, "clone_error", TRUE),
                     SetupSession(u))

\* a setup that does not wait for the key to be registered
perform_user_repo_setup_without_ssh(u, repo_url, ssh_ok, clone_ok) ==
    SetupOverHttps(u, repo_url, detect_repository_type(repo_url), clone_ok)

\* the principal's answer to "enter the URL of your repository"
perform_user_repo_setup(u, repo_url, ssh_ok, clone_ok) ==
    LET repo_type == detect_repository_type(repo_url) IN
    IF repo_type = REPO_TYPES.GITLAB
    THEN FlowStep(cfg.store, cfg.dirs,
                  SetupOut(u, repo_url, repo_type,
                           IF ssh_ok THEN "ssh_instructions" ELSE "ssh_error", FALSE),
                  IF ssh_ok
                  THEN [cfg.session EXCEPT ![u] =
                          Session("waiting_for_ssh_confirmation", repo_url,
                                  repo_type, NoName)]
                  ELSE SetupSession(u))
    ELSE SetupOverHttps(u, repo_url, repo_type, clone_ok)

\* what principals type as the URL
SetupUrls ==
    {UrlText(i) : i \in {j \in UrlInputs :
        /\ j.kind = "url"
        /\ j.path = <<"u", "/", "r">>
        /\ j.ending = <<>>
        /\ j.scheme \in {T_https, T_git_at}
        /\ j.host \in {T_github_com, T_gitlab_com, <<"e", "x", "a", "m", "p", "l", "e", ".", "c", "o", "m">>}}}

\* the principal presses the set-up button and answers with the URL
SetupRequestOf(us, bound) ==
    \E u \in us, text \in SetupUrls, ssh_ok \in BOOLEAN, clone_ok \in BOOLEAN :
      /\ cfg.n < bound
      /\ LET repo_url == Strip(text) IN
         IF StartsWith(repo_url, T_https)
         THEN perform_user_repo_setup(u, repo_url, ssh_ok, clone_ok)
         ELSE FlowStep(cfg.store, cfg.dirs,
                       SetupOut(u, repo_url, "none", "bad_format", FALSE),
                       SetupSession(u))

SetupRequest == SetupRequestOf({1, 2}, MaxSetups)

\* a caller classifies a URL
DetectRepositoryType ==
    \E i \in UrlInputs :
      /\ cfg' = [cfg EXCEPT !.out = [op |-> "detect", input |-> i,
                                       type |-> detect_repository_type(UrlText(i))]]
      /\ UNCHANGED <<locks, lockCols, wc, remoteHist, res, sync, loop>>

\* the usernames given to set_user_repo
StoreUsernames == {NoName, <<"a", "l">>, <<"b", "o">>}

\* set_user_repo(u, path, url, username), then the binding is read back
\* without and with the username
SetUserRepoOf(us, bound) ==
    \E u \in us, repo_path \in {1, 2}, username \in StoreUsernames,
       repo_url \in {UrlText(i) : i \in {j \in UrlInputs :
                       /\ j.kind = "url" /\ j.scheme = T_https /\ j.ending = <<>>
                       /\ j.path = <<"u", "/", "r">>
                       /\ j.host \in {T_github_com, T_gitlab_com}}} :
      /\ cfg.n < bound
      /\ LET m == set_user_repo(cfg.store, u, repo_path, repo_url, username) IN
         CfgStep(m, cfg.dirs,
                 [op |-> "set", user |-> u, repo_path |-> repo_path,
                  repo_url |-> repo_url, username |-> username,
                  got |-> get_user_repo(m, u, NoName),
                  got_named |-> get_user_repo(m, u, username),
                  store_before |-> cfg.store])

SetUserRepo == SetUserRepoOf({1, 2}, MaxSetups)

InitSetup ==
    /\ locks = <<>>
    /\ lockCols = 3
    /\ wc = [u \in Users |-> NoRepo]
    /\ remoteHist = <<[content |-> 1, by |-> "init"]>>
    /\ res = Idle
    /\ sync = SyncIdle
    /\ cfg = CfgIdle
    /\ loop = LoopIdle

NextClassify == DetectRepositoryType

SpecClassify == InitSetup /\ [][NextClassify]_vars

NextSetup ==
    \/ SetupRequest
    \/ SetUserRepo

SpecSetup == InitSetup /\ [][NextSetup]_vars

-----------------------------------------------------------------------------
(* GitLabLFSManager.configure_gitlab_lfs                                   *)

\* the index of the first c in s, 0 when there is none
FirstIndex(s, c) ==
    IF \E k \in 1..Len(s) : s[k] = c
    THEN CHOOSE k \in 1..Len(s) : s[k] = c /\ \A j \in 1..(k - 1) : s[j] # c
    ELSE 0

\* what (?:\.git)?/?$ matches
UrlTails == {<<>>, T_dot_git, <<"/">>, T_dot_git \o <<"/">>}

LazyPath_greedy(rest) == rest
\* (.+?)(?:\.git)?/?$ on rest: the shortest non-empty prefix whose remainder
\* is one of the tails (the empty sequence when there is none)
LazyPath(rest) ==
    LET ks == {k \in 1..Len(rest) : SubSeq(rest, k + 1, Len(rest)) \in UrlTails} IN
    IF ks = {} THEN <<>>
    ELSE SubSeq(rest, 1, CHOOSE k \in ks : \A j \in ks : k <= j)

NoMatch == [matched |-> FALSE, host |-> <<>>, path |-> <<>>]

\* re.match(prefix + ([^sep]+) + sep + (.+?)(?:\.git)?/?$, url)
UrlMatch(url, prefix, sep) ==
    IF ~StartsWith(url, prefix) THEN NoMatch
    ELSE LET after == SubSeq(url, Len(prefix) + 1, Len(url))
             k == FirstIndex(after, sep)
         IN IF k < 2 THEN NoMatch
            ELSE LET path == LazyPath(SubSeq(after, k + 1, Len(after))) IN
                 IF path = <<>> THEN NoMatch
                 ELSE [matched |-> TRUE, host |-> SubSeq(after, 1, k - 1),
                       path |-> path]

T_ssh_git_at == <<"s", "s", "h", ":", "/", "/", "g", "i", "t", "@">>

\* the value given to git config lfs.url for a remote URL; <<>> when the
\* URL is not supported or does not parse
lfs_url_for(actual_remote_url) ==
    IF StartsWith(actual_remote_url, T_git_at)
    THEN LET ssh_match == UrlMatch(actual_remote_url, T_git_at, ":") IN
         IF ssh_match.matched
         THEN T_ssh_git_at \o ssh_match.host \o <<"/">> \o ssh_match.path \o T_dot_git
         ELSE <<>>
    ELSE IF StartsWith(actual_remote_url, T_https)
    THEN LET https_match == UrlMatch(actual_remote_url, T_https, "/") IN
         IF https_match.matched
         THEN T_https \o https_match.host \o <<"/">> \o https_match.path \o T_dot_git
         ELSE <<>>
    ELSE <<>>

actual_remote_url_fallback(origin, repo_url) == repo_url
\* git remote get-url origin fails when the working copy has no remote origin
actual_remote_url(origin, repo_url) ==
    IF origin # <<>> THEN Strip(origin) ELSE repo_url

\* [ok, dirs]: the return value and the working copies afterwards
configure_gitlab_lfs(dirs, d, repo_url, install_ok) ==
    IF ~install_ok THEN [ok |-> FALSE, dirs |-> dirs]
    ELSE LET actual == actual_remote_url(DirAt(dirs, d).origin, repo_url)
             url == IF actual = UrlNone THEN <<>> ELSE lfs_url_for(actual)
         IN IF url = <<>> THEN [ok |-> FALSE, dirs |-> dirs]
            ELSE [ok |-> TRUE,
                  dirs |-> [k \in 1..Len(dirs) |->
                              IF dirs[k].dir = d
                              THEN [dirs[k] EXCEPT !.lfs_url = url]
                              ELSE dirs[k]]]

\* the remotes of GitLab projects: both forms, with and without the
\* endings, and one in capitals
RemoteInputs ==
    [kind : {"url"}, scheme : {T_https, T_git_at},
     host : {T_gitlab_com, <<"g", "i", "t", "l", "a", "b", ".", "c", "o", "r", "p", ".", "i", "o">>},
     path : {<<"g", "/", "p">>}, ending : UrlTails]
    \cup {[kind |-> "url", scheme |-> <<"H", "T", "T", "P", "S", ":", "/", "/">>, host |-> <<"G", "I", "T", "L", "A", "B", ".", "C", "O", "M">>,
            path |-> <<"g", "/", "p">>, ending |-> <<>>]}

RemoteTexts == {UrlText(i) : i \in RemoteInputs}

\* the URL strings callers pass: the URL as the principal typed it
CallerUrls == {UrlText(i) : i \in {j \in RemoteInputs : j.ending = <<>>}}

\* the working copy that is configured
LfsDir == 1

ConfigureLfs ==
    \E repo_url \in CallerUrls, install_ok \in BOOLEAN :
      /\ cfg.n < MaxSetups
      /\ LET r == configure_gitlab_lfs(cfg.dirs, LfsDir, repo_url, install_ok) IN
         CfgStep(cfg.store, r.dirs,
                 [op |-> "configure", repo_url |-> repo_url,
                  origin |-> DirAt(cfg.dirs, LfsDir).origin,
                  ok |-> r.ok, lfs_url |-> DirAt(r.dirs, LfsDir).lfs_url,
                  prev |-> IF cfg.out.op = "configure"
                           THEN [ok |-> cfg.out.ok, origin |-> cfg.out.origin,
                                 lfs_url |-> cfg.out.lfs_url]
                           ELSE [ok |-> FALSE, origin |-> <<>>, lfs_url |-> <<>>]])

\* someone changes or removes the remote origin of the working copy
\* (git remote set-url, git remote remove)
RemoteSetUrl ==
    \E url \in RemoteTexts \cup {<<>>} :
      /\ url # DirAt(cfg.dirs, LfsDir).origin
      /\ cfg' = [cfg EXCEPT !.dirs = [k \in 1..Len(cfg.dirs) |->
                                        IF cfg.dirs[k].dir = LfsDir
                                        THEN [cfg.dirs[k] EXCEPT !.origin = url]
                                        ELSE cfg.dirs[k]]]
      /\ UNCHANGED <<locks, lockCols, wc, remoteHist, res, sync, loop>>

InitLfs ==
    /\ locks = <<>>
    /\ lockCols = 3
    /\ wc = [u \in Users |-> NoRepo]
    /\ remoteHist = <<[content |-> 1, by |-> "init"]>>
    /\ res = Idle
    /\ sync = SyncIdle
    /\ loop = LoopIdle
    /\ \E url \in RemoteTexts :
         cfg = [CfgIdle EXCEPT !.dirs = git_clone(<<>>, LfsDir, url)]

NextLfs ==
    \/ ConfigureLfs
    \/ RemoteSetUrl

SpecLfs == InitLfs /\ [][NextLfs]_vars

\* the host of a URL input, as the service names it
HostOf(i) == Lower(i.host)

\* C11: every URL on host github.com, in either form and any case, is
\* classified github; every URL on gitlab.com or whose text contains
\* "gitlab" is classified gitlab; every other input, the empty string and
\* None included, is classified unknown.
C11_ClassifyByHost ==
    cfg.out.op = "detect" =>
      LET i == cfg.out.input IN
      cfg.out.type =
        IF i.kind = "url" /\ HostOf(i) = T_github_com THEN "github"
        ELSE IF /\ i.kind = "url"
                /\ (HostOf(i) = T_gitlab_com \/ Contains(Lower(UrlText(i)), T_gitlab))
        THEN "gitlab"
        ELSE "unknown"

\* C12: a setup whose URL is classified unknown ends with an explanation,
\* attempts no clone, deletes no working copy and leaves the stored bindings
\* as they were.
C12_UnknownAbortsSetup ==
    (cfg.out.op = "setup" /\ cfg.out.type = "unknown") =>
      /\ ~cfg.out.clone_attempted
      /\ cfg.out.reply \notin {"cloned", "ssh_instructions"}
      /\ cfg.dirs = cfg.out.dirs_before
      /\ cfg.store = cfg.out.store_before

\* the scheme, host, project path and ending a remote URL was written with
RemoteOf(text) == CHOOSE i \in RemoteInputs : UrlText(i) = text

\* two remote URLs that differ at most in a trailing ".git" or "/"
SameRemote(t1, t2) ==
    LET a == RemoteOf(t1)
        b == RemoteOf(t2)
    IN a.scheme = b.scheme /\ a.host = b.host /\ a.path = b.path

\* C13: two runs of configure on a working copy whose remote origin is the
\* same, or differs only by a trailing ".git" or "/", leave the same lfs.url.
C13_ConfigureDeterministic ==
    (/\ cfg.out.op = "configure" /\ cfg.out.ok /\ cfg.out.prev.ok
     /\ cfg.out.origin # <<>> /\ cfg.out.prev.origin # <<>>
     /\ SameRemote(cfg.out.origin, cfg.out.prev.origin))
    => cfg.out.lfs_url = cfg.out.prev.lfs_url

C13_Witness ==
    /\ cfg.out.op = "configure" /\ cfg.out.ok /\ cfg.out.prev.ok
    /\ cfg.out.origin # <<>> /\ cfg.out.prev.origin # <<>>
    /\ cfg.out.origin # cfg.out.prev.origin
    /\ SameRemote(cfg.out.origin, cfg.out.prev.origin)
    /\ RemoteOf(cfg.out.origin).ending = T_dot_git \o <<"/">>
    /\ cfg.out.lfs_url = cfg.out.prev.lfs_url

\* the large-object URL of a remote: ssh://git@host/path.git for git@host:path,
\* https://host/path.git for https://host/path
ExpectedLfsUrl(text) ==
    LET i == RemoteOf(text) IN
    (IF i.scheme = T_git_at THEN T_ssh_git_at ELSE T_https)
    \o i.host \o <<"/">> \o i.path \o T_dot_git

\* C14 as stated: whenever configure writes lfs.url, the value is derived
\* from the remote origin of the working copy, never from the caller's URL.
C14_AlwaysFromActualRemote ==
    (cfg.out.op = "configure" /\ cfg.out.ok) =>
      /\ cfg.out.origin # <<>>
      /\ cfg.out.lfs_url = ExpectedLfsUrl(cfg.out.origin)

\* C14 (amended): whenever configure writes lfs.url and the working copy has
\* a remote origin, the value is derived from that remote, also when the
\* caller's URL differs; only when the remote cannot be read is the value
\* derived from the caller's URL.
C14_FromActualRemoteWhenReadable ==
    (cfg.out.op = "configure" /\ cfg.out.ok) =>
      cfg.out.lfs_url =
        ExpectedLfsUrl(IF cfg.out.origin # <<>> THEN cfg.out.origin
                       ELSE cfg.out.repo_url)

C14_Witness ==
    /\ cfg.out.op = "configure" /\ cfg.out.ok
    /\ cfg.out.origin # <<>>
    /\ RemoteOf(cfg.out.origin).scheme = T_git_at
    /\ RemoteOf(cfg.out.repo_url).scheme = T_https
    /\ cfg.out.lfs_url = ExpectedLfsUrl(cfg.out.origin)
    /\ cfg.out.lfs_url # ExpectedLfsUrl(cfg.out.repo_url)

\* the binding read back is the one the last set_user_repo stored
IsStoredBinding(b) ==
    /\ b.repo_path = cfg.out.repo_path
    /\ b.repo_url = cfg.out.repo_url
    /\ b.git_username = cfg.out.username

\* the key set_user_repo files a binding under
KeyOf(u, username) ==
    IF username # NoName THEN Str(u) \o <<":">> \o username ELSE Str(u)

\* C15 as stated: after set_user_repo(u, path, url, username),
\* get_user_repo(u) returns the binding just stored, whatever was stored
\* before.
C15_RoundTripAlways ==
    cfg.out.op = "set" => IsStoredBinding(cfg.out.got)

\* C15 (amended): after set_user_repo(u, path, url, username),
\* get_user_repo(u, username) with the non-empty username just stored returns
\* the binding just stored, and get_user_repo(u) returns it when no binding of
\* u had been stored under another key before.
C15_RoundTripByKey ==
    cfg.out.op = "set" =>
      /\ cfg.out.username # NoName => IsStoredBinding(cfg.out.got_named)
      /\ (\A k \in 1..Len(cfg.out.store_before) :
             cfg.out.store_before[k].telegram_id = cfg.out.user
               => cfg.out.store_before[k].key = KeyOf(cfg.out.user, cfg.out.username))
           => IsStoredBinding(cfg.out.got)

C15_Witness ==
    /\ cfg.out.op = "set"
    /\ cfg.out.username # NoName
    /\ Len(cfg.out.store_before) > 0
    /\ cfg.out.store_before[1].telegram_id = cfg.out.user
    /\ cfg.out.store_before[1].key # KeyOf(cfg.out.user, cfg.out.username)
    /\ IsStoredBinding(cfg.out.got_named)
    /\ ~IsStoredBinding(cfg.out.got)

-----------------------------------------------------------------------------
(* get_lfs_lock_info called with a repository root of the caller's choice  *)

\* subprocess.run(["git", "lfs", "locks"], cwd=str(cwd), ...): without
\* check=True a failing command only gives an empty stdout, but a cwd that
\* does not exist makes subprocess.run itself raise FileNotFoundError, which
\* the except clause for CalledProcessError does not catch
query_lock(doc_rel_path, cwd_exists, ok) ==
    IF ~cwd_exists
    THEN [raised |-> TRUE, info |-> NoLock]
    ELSE [raised |-> FALSE, info |-> get_lfs_lock_info(doc_rel_path, Listing(ok))]

QueryLock ==
    \E p \in Paths, cwd_exists \in BOOLEAN, ok \in BOOLEAN :
      LET r == query_lock(p, cwd_exists, ok) IN
      LockStep(locks,
               [Reply("query", 0, p, "none", FALSE, NoName,
                      IF cwd_exists THEN <<"locks">> ELSE <<>>, ok, r.info)
                EXCEPT !.raised = r.raised])

NextQuery ==
    \/ QueryLock
    \/ ExternalLock
    \/ ExternalUnlock

SpecQuery == Init /\ [][NextQuery]_vars

\* C16: get_lfs_lock_info never raises; when git lfs locks cannot be run in
\* the repository root, when it fails, and when no listed lock matches the
\* path, the answer is None.
C16_QueryNeverRaises ==
    res.op = "query" =>
      /\ ~res.raised
      /\ (\/ res.calls = <<>>
          \/ ~res.net
          \/ \A i \in 1..Len(locks) : ~MatchesPath(locks[i].path, res.path))
         => res.info = NoLock

-----------------------------------------------------------------------------
(* The event loop: asyncio.run(main()), one Application built without      *)
(* concurrent updates, handlers that call subprocess.run                   *)

\* at most MaxRequests updates are received
MaxRequests == 3

\* a handler runs at most MaxCalls child processes
MaxCalls == 2

LoopUsers == {1, 2, 3}

InFlight == Range(loop.queue) \cup (IF loop.running = NoRequest THEN {} ELSE {loop.running})

LoopStep(l) ==
    /\ loop' = l
    /\ UNCHANGED <<locks, lockCols, wc, remoteHist, res, sync, cfg>>

\* a principal sends a document or a menu text; the update waits until the
\* application takes it
Receive ==
    \E u \in LoopUsers, kind \in {"document", "text"}, n \in 1..MaxCalls :
      /\ Len(loop.queue) + Len(loop.done) + (IF loop.running = NoRequest THEN 0 ELSE 1)
           < MaxRequests
      /\ \A r \in InFlight : r.user # u
      /\ LoopStep([loop EXCEPT !.queue = Append(@, [user |-> u, kind |-> kind,
                                                      left |-> n])])

\* the application takes the next update and awaits its handler
\* (document_router / text_router); it does so only after the previous
\* handler has returned
Dispatch ==
    /\ loop.running = NoRequest
    /\ loop.queue # <<>>
    /\ LoopStep([loop EXCEPT !.running = Head(loop.queue), !.queue = Tail(loop.queue)])

\* subprocess.run(...) in the running handler returns
SubprocessReturns ==
    /\ loop.running # NoRequest
    /\ ~loop.hung
    /\ loop.running.left > 0
    /\ LoopStep([loop EXCEPT !.running.left = @ - 1])

\* subprocess.run(...) without timeout in the running handler never returns:
\* the thread of the event loop stays inside the call
SubprocessHangs ==
    /\ loop.running # NoRequest
    /\ ~loop.hung
    /\ loop.running.left > 0
    /\ LoopStep([loop EXCEPT !.hung = TRUE])

\* the handler sends its reply and returns
HandlerReturns ==
    /\ loop.running # NoRequest
    /\ loop.running.left = 0
    /\ LoopStep([loop EXCEPT !.running = NoRequest,
                              !.done = Append(@, loop.running.user)])

InitLoop ==
    /\ locks = <<>>
    /\ lockCols = 3
    /\ wc = [u \in Users |-> CleanWc]
    /\ remoteHist = <<[content |-> 1, by |-> "init"]>>
    /\ res = Idle
    /\ sync = SyncIdle
    /\ cfg = CfgIdle
    /\ loop = LoopIdle

NextLoop ==
    \/ Receive
    \/ Dispatch
    \/ SubprocessReturns
    \/ SubprocessHangs
    \/ HandlerReturns

SpecLoop == InitLoop /\ [][NextLoop]_vars

\* C17: when a child process of one principal's request never returns, the
\* request of another principal that is waiting can still be taken up and
\* run.
C17_HungStallsOnlyIssuer ==
    (loop.hung /\ loop.queue # <<>>) => ENABLED Dispatch

-----------------------------------------------------------------------------
\* the replies that report success
SuccessReplies ==
    {"locked", "unlocked", "unlocked_after_autocommit", "force_unlocked",
     "uploaded", "saved_locally"}

\* C18: every run of the lock, unlock, force-unlock and upload handlers that
\* does not end in success ends with a reply that carries a keyboard, and
\* none ends without a reply or by raising.
C18_FailureRepliesWithMenu ==
    (res.op \in {"lock", "unlock", "force", "upload"} /\ res.reply \notin SuccessReplies)
    => (~res.raised /\ res.reply # "none" /\ res.keyboard)

-----------------------------------------------------------------------------
(* Two lock requests for the same path whose remote calls interleave: the  *)
(* remote serves the calls of every process that works for a principal one *)
(* at a time, in any order                                                 *)

RaceUsers == {1, 2}

RaceStart == [pc |-> "query", reply |-> "none", named |-> NoName, net |-> TRUE,
              create |-> "none"]

\* the path both requests are for
RacePath == loop.race.path

RaceStep(u, newLocks, r) ==
    /\ locks' = newLocks
    /\ loop' = [loop EXCEPT !.race.req[u] = r]
    /\ UNCHANGED <<lockCols, wc, remoteHist, res, sync, cfg>>

\* get_lfs_lock_info(rel) before the lock is created
RaceQuery(u) ==
    LET r == loop.race.req[u] IN
    /\ r.pc = "query"
    /\ \E l1 \in BOOLEAN :
         LET lfs_lock_info == get_lfs_lock_info(RacePath, Listing(l1)) IN
         IF lfs_lock_info.found
         THEN RaceStep(u, locks, [r EXCEPT !.pc = "done", !.reply = "already_locked",
                                           !.named = lfs_lock_info.owner])
         ELSE RaceStep(u, locks, [r EXCEPT !.pc = "create", !.net = l1])

\* what the remote answered to "git lfs lock"
CreateOutcome(proc) ==
    IF proc.ok THEN "granted"
    ELSE IF proc.err = ErrAlready THEN "refused" ELSE "failed"

\* git lfs lock rel, and the replies that need no further remote call
RaceCreate(u) ==
    LET r == loop.race.req[u] IN
    /\ r.pc = "create"
    /\ \E proc \in RemoteCreate(RacePath, Account(u)) :
         LET c == [r EXCEPT !.create = CreateOutcome(proc)] IN
         IF proc.ok
         THEN RaceStep(u, proc.locks, [c EXCEPT !.pc = "done", !.reply = "locked"])
         ELSE IF HasAlreadyLocked(proc.err)
         THEN RaceStep(u, locks, [c EXCEPT !.pc = "query2"])
         ELSE IF HasSsh(proc.err)
         THEN RaceStep(u, locks, [c EXCEPT !.pc = "done", !.reply = "ssh_error"])
         ELSE RaceStep(u, locks, [c EXCEPT !.pc = "done", !.reply = "lock_failed"])

\* get_lfs_lock_info(rel) after "already locked"
RaceRequery(u) ==
    LET r == loop.race.req[u] IN
    /\ r.pc = "query2"
    /\ \E l2 \in BOOLEAN :
         LET lfs_lock_info == get_lfs_lock_info(RacePath, Listing(l2)) IN
         IF lfs_lock_info.found
         THEN RaceStep(u, locks, [r EXCEPT !.pc = "done", !.reply = "already_locked",
                                           !.named = lfs_lock_info.owner,
                                           !.net = r.net /\ l2])
         ELSE RaceStep(u, locks, [r EXCEPT !.pc = "done", !.reply = "lock_failed",
                                           !.net = r.net /\ l2])

InitRace ==
    /\ locks = <<>>
    /\ lockCols \in {2, 3}
    /\ wc = [u \in Users |-> CleanWc]
    /\ remoteHist = <<[content |-> 1, by |-> "init"]>>
    /\ res = Idle
    /\ sync = SyncIdle
    /\ cfg = CfgIdle
    /\ \E p \in Paths :
         loop = [LoopIdle EXCEPT !.race = [path |-> p,
                                           req |-> [u \in RaceUsers |-> RaceStart]]]

NextRace ==
    \E u \in RaceUsers :
      \/ RaceQuery(u)
      \/ RaceCreate(u)
      \/ RaceRequery(u)

SpecRace == InitRace /\ [][NextRace]_vars

-----------------------------------------------------------------------------
(* C19                                                                     *)

LocksOnRacePath == {i \in 1..Len(locks) : locks[i].path = RacePath}

\* both requests queried before either created and the remote answered every
\* call: each got past its first query, each had its create-lock granted or
\* refused, and both have replied
BothRaced ==
    \A u \in RaceUsers :
      /\ loop.race.req[u].pc = "done"
      /\ loop.race.req[u].net
      /\ loop.race.req[u].create \in {"granted", "refused"}

\* C19: when two principals' lock requests for the same unlocked path both
\* query before either creates, the remote grants one create-lock: exactly one
\* request is answered "locked", the other is answered with a lock conflict
\* that names the winner, and the remote never holds two locks on the path.
C19_RaceOneWinner ==
    /\ Cardinality(LocksOnRacePath) <= 1
    /\ BothRaced =>
         \E w \in RaceUsers :
           /\ loop.race.req[w].create = "granted"
           /\ loop.race.req[w].reply = "locked"
           /\ LockAt(RacePath).found
           /\ LockAt(RacePath).owner = Account(w)
           /\ \A u \in RaceUsers \ {w} :
                /\ loop.race.req[u].create = "refused"
                /\ loop.race.req[u].reply = "already_locked"
                /\ loop.race.req[u].named = Account(w)

C19_Witness ==
    /\ BothRaced
    /\ \E u \in RaceUsers : loop.race.req[u].reply = "already_locked"

-----------------------------------------------------------------------------
(* C20                                                                     *)

CalledCreate == "lock" \in Range(res.calls)

\* C20: a lock request for a document refuses without calling the remote
\* create-lock exactly when the remote holds a lock on the path owned by another
\* principal; when it did call create-lock, a failure on a path the remote holds
\* locked is answered as already locked, and a failure on a path the remote
\* does not hold locked is answered as a transport error.
C20_RefusesOnlyForOthersLock ==
    (res.op = "lock" /\ res.path # NotFound) =>
      /\ ~CalledCreate <=> (res.pre.found /\ res.pre.owner # Account(res.user))
      /\ (CalledCreate /\ res.pre.found /\ res.net) => res.reply = "already_locked"
      /\ (CalledCreate /\ ~res.pre.found) =>
            res.reply \in {"locked", "ssh_error", "lock_failed"}

-----------------------------------------------------------------------------
(* C21                                                                     *)

Count(seq, x) == Cardinality({i \in 1..Len(seq) : seq[i] = x})

\* the auto-commit of the unlock handler exists in the requester's working copy
AutoCommitted ==
    \E i \in 1..Len(wc[res.user].ahead) : wc[res.user].ahead[i].by = "unlock"

\* the lock the unlock addressed is still on the remote
TargetHeld == UnlockTarget(res.path, res.info).found

\* C21: when the remote rejects an unlock because of uncommitted changes, the
\* unlock handler attempts one auto-commit and, when it succeeded, retries the
\* unlock once; when the auto-commit or the retry fails an error is reported
\* and the lock is still held; a rejection for any other reason leads to no
\* auto-commit and no retry.
C21_OneAutoCommitOneRetry ==
    (res.op = "unlock" /\ res.err # "") =>
      IF res.err = ErrUncommitted
      THEN /\ Count(res.calls, "commit") = 1
           /\ Count(res.calls, "unlock") = (IF AutoCommitted THEN 2 ELSE 1)
           /\ Count([i \in 1..Len(wc[res.user].ahead) |-> wc[res.user].ahead[i].by],
                    "unlock") <= 1
           /\ \/ res.reply = "unlocked_after_autocommit" /\ AutoCommitted
              \/ res.reply = "autocommit_error" /\ TargetHeld
      ELSE /\ Count(res.calls, "commit") = 0
           /\ Count(res.calls, "unlock") = 1
           /\ res.reply \in {"ssh_error", "unlock_failed"}

\* the retry after a successful auto-commit failed
C21_Witness ==
    /\ res.op = "unlock"
    /\ res.err = ErrUncommitted
    /\ res.reply = "autocommit_error"
    /\ AutoCommitted
    /\ Count(res.calls, "unlock") = 2

-----------------------------------------------------------------------------
(* C22                                                                     *)

\* position of command x in the log of the last call, 0 when it did not run
PosIn(log, x) ==
    IF x \in Range(log) THEN CHOOSE i \in 1..Len(log) : log[i] = x /\ \A j \in 1..(i - 1) : log[j] # x
    ELSE 0

\* step 2 of the last call went through: the hinted document had a change to
\* commit and git let the plain pull pass
Step2Succeeded ==
    LET c == git_commit_path(sync.before, remoteHist, "auto") IN
    /\ sync.hint
    /\ c.ok
    /\ sync.o.pull2
    /\ ~TrackedDirty(c.w, remoteHist)

\* C22: the ladder runs in order. The autostash pull comes first; the add and
\* commit of the hinted path run only when that pull failed with a local-changes
\* text and a path hint was given; the stash push runs only when that pull
\* failed with a local-changes text and step 2 was skipped or did not go
\* through, and after step 2; a failure of the first pull with another text
\* returns failure with nothing else run.
C22_LadderInOrder ==
    (sync.n > 0) =>
      LET log == sync.result.log IN
      /\ log # <<>> /\ log[1] = "pull_autostash"
      /\ "add" \in Range(log) => (sync.o.pull1 = "blocked" /\ sync.hint)
      /\ "stash_push" \in Range(log)
           => /\ sync.o.pull1 = "blocked"
              /\ ~Step2Succeeded
              /\ "add" \in Range(log) => PosIn(log, "commit") < PosIn(log, "stash_push")
      /\ sync.o.pull1 = "error" => (log = <<"pull_autostash">> /\ ~sync.result.ok)
      /\ sync.o.pull1 = "ok" => (log = <<"pull_autostash">> /\ sync.result.ok)

\* step 2 ran and failed, step 3 ran after it
C22_Witness ==
    /\ sync.n > 0
    /\ sync.hint
    /\ sync.o.pull1 = "blocked"
    /\ PosIn(sync.result.log, "commit") > 0
    /\ PosIn(sync.result.log, "stash_push") > PosIn(sync.result.log, "commit")

-----------------------------------------------------------------------------
(* C23                                                                     *)

\* the longest run of commands one call can make: the first pull, the status,
\* add, commit and pull of step 2, stash push and pull of step 3, and the status
\* and the stash list of the diagnostics
MaxLadderCommands == 9

\* C23: one call of rebasePull runs a bounded number of commands and then
\* returns, and runs each step at most once: at most one autostash pull, one
\* auto-commit, one stash push and one stash pop.
C23_EachStepAtMostOnce ==
    (sync.n > 0) =>
      LET log == sync.result.log IN
      /\ Len(log) <= MaxLadderCommands
      /\ Count(log, "pull_autostash") = 1
      /\ Count(log, "add") <= 1
      /\ Count(log, "commit") <= 1
      /\ Count(log, "stash_push") <= 1
      /\ Count(log, "stash_pop") <= 1
      /\ Count(log, "pull") <= 2

\* a call that ran every step: steps 1 and 2 failed, step 3 reached its pop
C23_Witness ==
    /\ sync.n > 0
    /\ Count(sync.result.log, "pull_autostash") = 1
    /\ Count(sync.result.log, "commit") = 1
    /\ Count(sync.result.log, "stash_push") = 1
    /\ Count(sync.result.log, "stash_pop") = 1

-----------------------------------------------------------------------------
(* C24                                                                     *)

\* in the last call the stash push and the pull of step 3 went through and the
\* stash pop, with an entry to apply, failed
PopConflicted ==
    /\ sync.n > 0
    /\ "stash_pop" \in Range(sync.result.log)
    /\ ~sync.o.pop
    /\ wc[SyncUser].stash # <<>>

\* C24: when the stash push and the pull of step 3 succeed and the stash pop
\* conflicts, the stash entry is left in place and the call reports the
\* conflict to its caller by returning failure.
C24_PopConflictReported ==
    PopConflicted =>
      /\ Len(wc[SyncUser].stash) >= Len(sync.before.stash)
      /\ ~sync.result.ok

-----------------------------------------------------------------------------
(* C25                                                                     *)

\* in the last call step 1 failed with a local-changes text and the stash
\* fallback failed too
AllStepsFailed ==
    /\ sync.n > 0
    /\ ~sync.result.ok
    /\ "stash_push" \in Range(sync.result.log)

Kinds(msg) == {msg[i].kind : i \in 1..Len(msg)}

Carries(msg, kind, vals) == \E i \in 1..Len(msg) : msg[i].kind = kind /\ msg[i].val \in vals

\* the error text cut to at most k characters
CutTo(k) == {n \in 0..k : sync.errLen <= k => n = sync.errLen}

\* C25 as stated: when every step fails the call returns failure and the
\* message it returns carries the trimmed error text, the status before, the
\* status after and the stash list.
C25_ReturnCarriesDiagnostics ==
    AllStepsFailed =>
      /\ ~sync.result.ok
      /\ {"err", "status_before", "status_after", "stash_list"}
            \subseteq Kinds(sync.report.returned)

\* C25 amended: when every step fails the call returns failure with a message
\* that carries the error text cut to 300 characters and no status or stash
\* list; the error text cut to 800 characters, the status taken before step 2,
\* the status after step 3 and the stash list (each empty when its command
\* failed) are written to the log.
C25_ReturnsErrorLogsDiagnostics ==
    AllStepsFailed =>
      /\ ~sync.result.ok
      /\ Carries(sync.report.returned, "err", CutTo(300))
      /\ Kinds(sync.report.returned) = {"text", "err"}
      /\ Carries(sync.report.logged, "err", CutTo(800))
      /\ Carries(sync.report.logged, "status_before",
                 {StatusLines(sync.before, remoteHist, TRUE), {}})
      /\ Carries(sync.report.logged, "status_after",
                 {StatusLines(wc[SyncUser], remoteHist, TRUE), {}})
      /\ Carries(sync.report.logged, "stash_list", {Len(wc[SyncUser].stash), 0})

\* the stash was pushed, the pull of step 3 failed with a long error text, the
\* diagnostics show the saved changes in the stash list
C25_Witness ==
    /\ AllStepsFailed
    /\ sync.errLen > 800
    /\ "pull" \in Range(sync.result.log)
    /\ Carries(sync.report.logged, "stash_list", {n \in 1..3 : n = Len(wc[SyncUser].stash)})
    /\ Carries(sync.report.logged, "status_before", {{"doc"}})

-----------------------------------------------------------------------------
(* C26                                                                     *)

\* the release, the pushes and the re-acquire among the remote calls of the
\* last handler, in the order they ran
PushBlockCalls ==
    SelectSeq(res.calls, LAMBDA c : c \in {"unlock", "push", "lfs_push", "lock"})

\* the lock the pipeline found on the path before the push is the uploader's,
\* by chat id or by VCS username
PushLockIsOwn ==
    /\ res.up.info2.found
    /\ ResolveIsOwner(res.up.info2.owner, res.user)

\* C26: in an upload that created a commit and whose remote calls were all
\* answered, when the lock found on the path is the uploader's (by chat id or
\* by VCS username) the pipeline runs release, push of commits, push of
\* large-object data and re-acquire in this order; when the path is unlocked or
\* the lock is another's it runs no release and no re-acquire.
C26_ReleasePushReacquire ==
    (res.op = "upload" /\ res.up.committed /\ res.net) =>
      IF PushLockIsOwn
      THEN PushBlockCalls = <<"unlock", "push", "lfs_push", "lock">>
      ELSE /\ "unlock" \notin Range(PushBlockCalls)
           /\ "lock" \notin Range(PushBlockCalls)

-----------------------------------------------------------------------------
(* C27                                                                     *)

\* the last upload pushed its commit and its re-lock was refused or failed
RelockFailed ==
    /\ res.op = "upload"
    /\ res.up.pushed
    /\ res.up.temp = "yes"
    /\ ~res.up.relocked

\* C27: when the re-lock after a successful push fails, the upload still ends
\* with the success summary of a committed document, and the summary warns
\* that the lock could not be re-acquired.
C27_RelockFailureWarns ==
    RelockFailed =>
      /\ res.reply = "uploaded"
      /\ res.up.committed
      /\ "relock_warning" \in res.up.summary

-----------------------------------------------------------------------------
(* C28                                                                     *)

\* the last upload came with no description: neither the caption of the
\* message nor a pending caption has a character that is not white space
NoDescription ==
    /\ res.op = "upload"
    /\ \A i \in 1..Len(res.up.caption) : res.up.caption[i] = " "
    /\ \A i \in 1..Len(res.up.pending) : res.up.pending[i] = " "

\* C28: an upload whose description is missing, empty or white space only is
\* rejected before the file is written: the working copy with the file and the
\* local history, the remote history and the lock of the path are as before
\* and no remote call was made.
C28_NoDescriptionChangesNothing ==
    NoDescription =>
      /\ res.reply \in {"caption_required", "rate_limited", "no_repo"}
      /\ wc[res.user] = res.up.before
      /\ Len(remoteHist) = res.up.before_hist
      /\ res.calls = <<>>
      /\ LockAt(res.path) = res.pre
      /\ ~res.up.committed /\ ~res.up.pushed

\* a white-space caption on a message that is good otherwise, sent for a
\* document that differs from the upload
C28_Witness ==
    /\ NoDescription
    /\ res.up.caption = <<" ">>
    /\ res.reply = "caption_required"
    /\ res.up.content \in Contents
    /\ wc[res.user].disk # res.up.content

-----------------------------------------------------------------------------
(* C29                                                                     *)

\* the last upload got past the lock gate and its download went through, so
\* the file was written
FileWritten ==
    /\ res.op = "upload"
    /\ res.calls # <<>>
    /\ ~res.raised
    /\ res.reply \notin {"lock_conflict", "download_failed"}

\* C29: when the file the upload wrote has zero bytes or more than 50 MB, the
\* upload is rejected, the file just written is deleted, and no sync, commit or
\* push is made.
C29_BadFileRejectedAndDeleted ==
    (FileWritten /\ (res.up.content = EmptyBytes \/ res.up.size = "actual_big")) =>
      /\ res.reply \in {"save_error", "too_big"}
      /\ wc[res.user].disk = NoFile
      /\ res.calls = <<"list">>
      /\ wc[res.user].ahead = res.up.before.ahead
      /\ Len(remoteHist) = res.up.before_hist
      /\ ~res.up.committed /\ ~res.up.pushed

-----------------------------------------------------------------------------
(* C30                                                                     *)

\* the sync of the last upload ran
UploadSynced ==
    /\ res.op = "upload"
    /\ "pull_autostash" \in Range(res.calls)

\* C30: in the upload pipeline the sync runs after the file is written and
\* before the commit and the push block; when it returns failure the pipeline
\* stops with no commit of the upload, no release of the lock and no push.
C30_SyncBeforeCommit ==
    /\ (res.op = "upload" /\ (res.up.committed \/ res.up.pushed)) =>
          /\ UploadSynced
          /\ sync.result.ok
          /\ \A i \in 1..Len(res.calls) :
                res.calls[i] \in {"unlock", "lfs_push", "push", "lock"}
                  => PosIn(res.calls, "pull_autostash") < i
    /\ UploadSynced =>
          /\ sync.before.disk = res.up.content
          /\ sync.hint
    /\ (UploadSynced /\ ~sync.result.ok) =>
          /\ res.reply = "sync_failed"
          /\ ~res.up.committed /\ ~res.up.pushed
          /\ Range(res.calls) \cap {"unlock", "lfs_push", "push", "lock"} = {}
          /\ SelectSeq(wc[res.user].ahead, LAMBDA e : e.by = "caption")
               = SelectSeq(res.up.before.ahead, LAMBDA e : e.by = "caption")
          /\ Len(remoteHist) = res.up.before_hist
          /\ LockAt(res.path) = res.pre

\* the sync failed after the file was written with new content
C30_Witness ==
    /\ UploadSynced
    /\ ~sync.result.ok
    /\ res.up.content # res.up.before.disk
    /\ res.reply = "sync_failed"

-----------------------------------------------------------------------------
(* C31                                                                     *)

\* C31: both readers of the lock listing accept the two-column and the
\* three-column line: after a document list whose listing call succeeded, a
\* document is shown with the lock sign exactly when get_lfs_lock_info returns
\* a record for it on the same listing.
C31_ListAgreesWithQuery ==
    (res.op = "list" /\ res.net) =>
      \A p \in Paths :
        (<<Basename(p)>> \in res.marked) <=> get_lfs_lock_info(p, Listing(TRUE)).found


-----------------------------------------------------------------------------
(* C32: what get_lfs_lock_info returns                                     *)

\* the remote holds at most one lock for a path
OneLockPerPath ==
    \A i, j \in 1..Len(locks) : locks[i].path = locks[j].path => i = j

\* C32: queryLock(p) returns the first record, in listing order, whose path
\* matches p as the same path, as a path-suffix or by equal file name, and no
\* record when no line matches; with at most one lock per path on the remote
\* the record returned is the lock of p itself.
C32_QueryReturnsLockOfPath ==
    (res.op = "select" /\ res.path # NotFound /\ res.net)
    => /\ AnswerIsCurrent
       /\ (OneLockPerPath /\ res.info.found) => res.info.path = res.path


-----------------------------------------------------------------------------
(* the setup flow: confirmation of the SSH key, username and token         *)

\* at most MaxFlowSteps messages of the setup flow are handled
MaxFlowSteps == 4

\* the principals that set up a repository
FlowUsers == {1}

\* git@host:path.git for an HTTPS URL
convert_https_to_ssh(https_url) ==
    LET parsed == CHOOSE i \in UrlInputs : UrlText(i) = https_url IN
    T_git_at \o Lower(parsed.host) \o <<":">> \o parsed.path \o T_dot_git

continue_gitlab_setup_after_ssh(u, repo_url, clone_ok, install_ok, sessions) ==
    LET found == get_user_repo(cfg.store, u, NoName)
        m1 == IF found = NoBinding
              THEN create_basic_user_entry(cfg.store, u) ELSE cfg.store
        user_repo == get_user_repo(m1, u, NoName)
        repo_path == user_repo.repo_path
        ssh_url == convert_https_to_ssh(repo_url)
        cloned == git_clone(cfg.dirs, repo_path, ssh_url)
        out(reply) == [op |-> "ssh_confirmation", user |-> u, text |-> "confirm",
                       reply |-> reply, store_before |-> cfg.store,
                       dirs_before |-> cfg.dirs, session_before |-> cfg.session[u]]
    IN IF clone_ok
       THEN FlowStep(UpdateFirstBinding(m1, u, repo_url, REPO_TYPES.GITLAB),
                     configure_gitlab_lfs(cloned, repo_path, repo_url, install_ok).dirs,
                     out("cloned"),
                     [sessions EXCEPT ![u] =
                        Session("collect_git_username", repo_url, REPO_TYPES.GITLAB,
                                NoName)])
       ELSE FlowStep(m1, rmtree(cfg.dirs, repo_path), out("clone_error"), sessions)

\* text_router while the session waits for the confirmation of the key
SshConfirmation ==
    \E u \in FlowUsers, text \in {"confirm", "cancel"},
       clone_ok \in BOOLEAN, install_ok \in BOOLEAN :
      /\ cfg.n < MaxFlowSteps
      /\ cfg.session[u].kind = "waiting_for_ssh_confirmation"
      /\ LET cleared == [cfg.session EXCEPT ![u] = NoSession] IN
         IF text = "confirm"
         THEN continue_gitlab_setup_after_ssh(u, cfg.session[u].repo_url, clone_ok,
                                              install_ok, cleared)
         ELSE FlowStep(cfg.store, cfg.dirs,
                       [op |-> "ssh_confirmation", user |-> u, text |-> "cancel",
                        reply |-> "cancelled", store_before |-> cfg.store,
                        dirs_before |-> cfg.dirs,
                        session_before |-> cfg.session[u]],
                       cleared)

\* user_repos[key]['git_username'] = git_username for the first binding of
\* the principal
SetFirstUsername(m, user_id, git_username) ==
    [k \in 1..Len(m) |->
       IF /\ Str(m[k].telegram_id) = Str(user_id)
          /\ \A j \in 1..(k - 1) : Str(m[j].telegram_id) # Str(user_id)
       THEN [m[k] EXCEPT !.git_username = git_username]
       ELSE m[k]]

FlowOut(op, u, reply) ==
    [op |-> op, user |-> u, reply |-> reply, store_before |-> cfg.store,
     dirs_before |-> cfg.dirs, session_before |-> cfg.session[u]]

\* text_router while the session collects the Git username
CollectGitUsername ==
    \E u \in FlowUsers, git_username \in {<<"a", "l">>, <<"b", "o">>} :
      /\ cfg.n < MaxFlowSteps
      /\ cfg.session[u].kind = "collect_git_username"
      /\ IF cfg.session[u].repo_type = REPO_TYPES.GITLAB
         THEN FlowStep(SetFirstUsername(cfg.store, u, git_username), cfg.dirs,
                       FlowOut("username", u, "configured"),
                       [cfg.session EXCEPT ![u] = NoSession])
         ELSE FlowStep(cfg.store, cfg.dirs, FlowOut("username", u, "ask_pat"),
                       [cfg.session EXCEPT ![u] =
                          Session("collect_pat", cfg.session[u].repo_url,
                                  cfg.session[u].repo_type, git_username)])

\* text_router while the session collects the personal access token
CollectPat ==
    \E u \in FlowUsers :
      /\ cfg.n < MaxFlowSteps
      /\ cfg.session[u].kind = "collect_pat"
      /\ LET user_key == Str(u) IN
         IF \E k \in 1..Len(cfg.store) : cfg.store[k].key = user_key
         THEN FlowStep([k \in 1..Len(cfg.store) |->
                          IF cfg.store[k].key = user_key
                          THEN [cfg.store[k] EXCEPT
                                  !.git_username = cfg.session[u].git_username,
                                  !.repo_url = cfg.session[u].repo_url]
                          ELSE cfg.store[k]],
                       cfg.dirs, FlowOut("pat", u, "configured"),
                       [cfg.session EXCEPT ![u] = NoSession])
         ELSE FlowStep(cfg.store, cfg.dirs, FlowOut("pat", u, "user_not_found"),
                       cfg.session)

NextFlow ==
    \/ SetupRequestOf(FlowUsers, MaxFlowSteps)
    \/ SshConfirmation
    \/ CollectGitUsername
    \/ CollectPat
    \/ SetUserRepoOf(FlowUsers, MaxFlowSteps)

SpecFlow == InitSetup /\ [][NextFlow]_vars

-----------------------------------------------------------------------------
(* C33: the key is shown and confirmed before the working copy is replaced *)

\* the working copy directory of the principal
RepoDirOf(store, dirs, u) ==
    DirAt(dirs, get_user_repo(store, u, NoName).repo_path)

-----------------------------------------------------------------------------
(* C35: the entries of the user store per principal                        *)

\* the entries of the store whose telegram_id is the principal
EntriesOf(m, u) == {k \in 1..Len(m) : m[k].telegram_id = u}

\* C35 as stated: after any sequence of create_basic_user_entry,
\* set_user_repo, setup and username/token collection steps the store holds
\* at most one entry per principal.
C35_OneEntryPerPrincipal ==
    \A u \in Users : Cardinality(EntriesOf(cfg.store, u)) <= 1

\* C35 (amended): the store holds at most one entry per key; a setup, a
\* confirmation, a username or a token step adds an entry only for a
\* principal that has none and adds or removes no other entry, so a re-setup
\* adds none; set_user_repo adds an entry exactly when its key is new.
C35_OneEntryPerKey ==
    /\ \A i, j \in 1..Len(cfg.store) :
         cfg.store[i].key = cfg.store[j].key => i = j
    /\ cfg.out.op \in {"setup", "ssh_confirmation", "username", "pat"} =>
         LET before == Cardinality(EntriesOf(cfg.out.store_before, cfg.out.user))
             after == Cardinality(EntriesOf(cfg.store, cfg.out.user))
         IN /\ Len(cfg.store) - Len(cfg.out.store_before) = after - before
            /\ before > 0 => after = before
            /\ before = 0 => after \in {0, 1}
    /\ cfg.out.op = "set" =>
         Len(cfg.store) =
           Len(cfg.out.store_before)
           + (IF \E k \in 1..Len(cfg.out.store_before) :
                    cfg.out.store_before[k].key = KeyOf(cfg.out.user, cfg.out.username)
              THEN 0 ELSE 1)

\* a principal with two entries sets up another repository: the first entry
\* is given the new URL and no entry is added
C35_Witness ==
    /\ cfg.out.op = "setup" /\ cfg.out.reply = "cloned"
    /\ Cardinality(EntriesOf(cfg.out.store_before, cfg.out.user)) = 2
    /\ Cardinality(EntriesOf(cfg.store, cfg.out.user)) = 2
    /\ get_user_repo(cfg.out.store_before, cfg.out.user, NoName).repo_url # cfg.out.url
    /\ get_user_repo(cfg.store, cfg.out.user, NoName).repo_url = cfg.out.url


-----------------------------------------------------------------------------
(* C34: document operations of a principal without a repository            *)

\* C34: a select, lock, unlock, force-unlock or list of a principal without a
\* configured repository runs no git or lock command and touches no
\* repository, in particular not the global default repository; lock, unlock
\* and list reply that the repository is not configured.
C34_UnboundTouchesNothing ==
    (res.op \in {"select", "lock", "unlock", "force", "list"}
     /\ ~require_user_repo(res.user))
    => /\ res.calls = <<>>
       /\ res.repo = {}
       /\ res.op \in {"lock", "unlock", "list"} => res.reply = "not_configured"


-----------------------------------------------------------------------------
(* C36: the uploader's lock after the pipeline                             *)

\* C36: if the uploader owned the lock on the path when the upload started,
\* the path is locked by the uploader when the upload ends, on every path
\* through the pipeline on which the re-lock call itself did not fail,
\* including the one where the push is rejected after the temporary release.
C36_OwnLockKept ==
    (/\ res.op = "upload" /\ res.path # NotFound
     /\ res.pre.found /\ ResolveIsOwner(res.pre.owner, res.user)
     /\ ~RelockFailed)
    => (/\ LockAt(res.path).found
        /\ ResolveIsOwner(LockAt(res.path).owner, res.user))


-----------------------------------------------------------------------------
(* C37: a successful upload of changed content reaches the remote          *)

\* C37: whenever an upload of content that differs from the committed file
\* ends with one of its two summaries, the remote history holds a commit with
\* the uploaded content, also when step 2 of the sync ladder has committed
\* the uploaded path before the pipeline's own stage and commit.
C37_SuccessReachesRemote ==
    (/\ res.op = "upload"
     /\ res.reply \in {"uploaded", "saved_locally"}
     /\ ChangedContent)
    => \E i \in 1..Len(remoteHist) : remoteHist[i].content = res.up.content


-----------------------------------------------------------------------------
(* C38: no overwrite under another principal's lock                        *)

\* the file of the path in the working copy is not what it was before the
\* upload
Overwritten ==
    wc[res.user].disk # res.up.before.disk

\* C38: an upload never overwrites the file at p while the remote holds a
\* lock on p owned by another principal, also when the uploader's own
\* list-locks call fails or gives no output.
C38_NoOverwriteUnderForeignLock ==
    (/\ res.op = "upload" /\ res.path # NotFound
     /\ res.pre.found /\ res.pre.path = res.path
     /\ ~ResolveIsOwner(res.pre.owner, res.user))
    => ~Overwritten


-----------------------------------------------------------------------------
(* commit_all_changes                                                      *)

\* "git add -A" and "git commit": commits every local change, fails when
\* there is none
git_add_commit_all(w, hist, by) ==
    IF AnyLocal(w, hist)
    THEN [ok |-> TRUE,
          w |-> [w EXCEPT !.ahead = Append(@, [content |-> w.disk, by |-> by]),
                          !.other = {}]]
    ELSE [ok |-> FALSE, w |-> w]

commit_all_changes(u) ==
    LET w == wc[u]
        up == [UpIdle EXCEPT !.before = w, !.before_hist = Len(remoteHist),
                             !.content = w.disk]
        Out(kind, calls, up2) ==
            [Reply("commit_all", u, NotFound, kind, TRUE, NoName, calls, TRUE, NoLock)
               EXCEPT !.up = up2]
    IN
    IF ~require_user_repo(u) THEN NotConfigured("commit_all", u)
    ELSE IF ~AnyLocal(w, remoteHist)
    THEN UpStep(u, locks, w, remoteHist, Out("nothing_to_commit", <<"status">>, up),
                sync)
    ELSE \E r \in LadderResults(w, remoteHist, FALSE) :
           LET sy == [sync EXCEPT !.n = @ + 1, !.hint = FALSE, !.before = w,
                                  !.result = r]
               calls == <<"status">> \o r.log \o <<"add", "commit">>
               c == git_add_commit_all(r.w, remoteHist, "all")
           IN
           IF ~c.ok
           THEN UpStep(u, locks, r.w, remoteHist, Out("commit_error", calls, up), sy)
           ELSE \E push_ok \in (IF c.w.base = Len(remoteHist)
                                 THEN BOOLEAN ELSE {FALSE}) :
                  IF push_ok
                  THEN UpStep(u, locks, git_push(c.w, remoteHist).w,
                              git_push(c.w, remoteHist).hist,
                              Out("committed_and_pushed",
                                  calls \o <<"lfs_push", "push">>,
                                  [up EXCEPT !.committed = TRUE, !.pushed = TRUE]),
                              sy)
                  ELSE UpStep(u, locks, c.w, remoteHist,
                              Out("commit_error", calls \o <<"lfs_push", "push">>,
                                  [up EXCEPT !.committed = TRUE]),
                              sy)

CommitAllChanges ==
    \E u \in Users :
      /\ sync.ups < MaxUploads
      /\ commit_all_changes(u)

NextCommit ==
    \/ Upload
    \/ CommitAllChanges
    \/ ExternalPush

SpecCommit == InitUpload /\ [][NextCommit]_vars

-----------------------------------------------------------------------------
(* C39: pushes and the sync before them                                    *)

\* the sync of the last operation ran and returned failure
SyncFailedHere ==
    "pull_autostash" \in Range(res.calls) /\ ~sync.result.ok

\* the last operation made its own commit or ran git push
CommittedOrPushed ==
    res.up.committed \/ "push" \in Range(res.calls)

====
